---- MODULE Spec2Model ----
(***************************************************************************)
(* Verification model of the scrape-website edge function (the pipeline   *)
(* fetch -> extract -> enrich -> persist) of the website scraper.          *)
(*                                                                         *)
(* A JavaScript string is a sequence of one-character strings, so that the *)
(* regular expressions, trim(), startsWith() and new URL() of the source   *)
(* are computed character by character.                                   *)
(***************************************************************************)
EXTENDS Integers, Sequences, FiniteSets, TLC

(***************************************************************************)
(* Characters and strings                                                  *)
(***************************************************************************)
UpperChars == <<"A","B","C","D","E","F","G","H","I","J","K","L","M",
                "N","O","P","Q","R","S","T","U","V","W","X","Y","Z">>
LowerChars == <<"a","b","c","d","e","f","g","h","i","j","k","l","m",
                "n","o","p","q","r","s","t","u","v","w","x","y","z">>
DigitChars == {"0","1","2","3","4","5","6","7","8","9"}

Range(f) == {f[i] : i \in DOMAIN f}

IsUpper(c) == c \in Range(UpperChars)
IsLower(c) == c \in Range(LowerChars)
IsAlpha(c) == IsUpper(c) \/ IsLower(c)

\* String.prototype.toLowerCase on one character
Lower(c) ==
  IF IsUpper(c)
  THEN LowerChars[CHOOSE i \in DOMAIN UpperChars : UpperChars[i] = c]
  ELSE c

LowerStr(s) == [i \in DOMAIN s |-> Lower(s[i])]

\* the regular-expression class \s, on the characters the model uses
IsSpace(c) == c \in {" ", "\t", "\n", "\r"}

\* the regular-expression class \w
IsWordChar(c) == IsAlpha(c) \/ c \in DigitChars \/ c = "_"

\* s.substring(from - 1, to) with 1-based inclusive positions, clamped
Sub(s, from, to) ==
  IF from > to \/ from > Len(s) THEN <<>>
  ELSE SubSeq(s, from, IF to > Len(s) THEN Len(s) ELSE to)

\* s.substring(from - 1): the rest of s from position from
From(s, from) == Sub(s, from, Len(s))

\* does p occur in s at position i (1-based)
MatchAt(s, p, i) ==
  /\ i >= 1
  /\ i + Len(p) - 1 <= Len(s)
  /\ \A k \in 1..Len(p) : s[i + k - 1] = p[k]

\* the same, ignoring letter case (the /i flag); p is given in lower case
MatchAtCI(s, p, i) ==
  /\ i >= 1
  /\ i + Len(p) - 1 <= Len(s)
  /\ \A k \in 1..Len(p) : Lower(s[i + k - 1]) = p[k]

\* String.prototype.startsWith
StartsWith(s, p) == MatchAt(s, p, 1)

\* String.prototype.includes
Includes(s, p) == \E i \in 1..(Len(s) + 1) : MatchAt(s, p, i)

\* String.prototype.trim
TrimStart(s) ==
  IF \A i \in DOMAIN s : IsSpace(s[i]) THEN <<>>
  ELSE From(s, CHOOSE i \in DOMAIN s :
                 /\ ~IsSpace(s[i])
                 /\ \A j \in 1..(i - 1) : IsSpace(s[j]))

TrimEnd(s) ==
  IF \A i \in DOMAIN s : IsSpace(s[i]) THEN <<>>
  ELSE Sub(s, 1, CHOOSE i \in DOMAIN s :
                   /\ ~IsSpace(s[i])
                   /\ \A j \in (i + 1)..Len(s) : IsSpace(s[j]))

Trim(s) == TrimEnd(TrimStart(s))

\* the least element of a non-empty set of positions
MinOf(S) == CHOOSE k \in S : \A j \in S : k <= j

\* the least element of S, or 0 where S is empty
FirstOf(S) == IF S = {} THEN 0 ELSE MinOf(S)

\* the first position >= i of s whose character is in set cs, or Len(s) + 1
FindChar(s, cs, i) ==
  LET S == {k \in i..Len(s) : s[k] \in cs}
  IN  IF S = {} THEN Len(s) + 1 ELSE MinOf(S)

\* the first position >= i of s where p occurs ignoring letter case, or 0;
\* p is given in lower case
FindStrCI(s, p, i) == FirstOf({k \in i..Len(s) : MatchAtCI(s, p, k)})

(***************************************************************************)
(* new URL(input) and URL.prototype.toString(), for the inputs of the     *)
(* model: a scheme, and for the special schemes a host and a path, with   *)
(* no userinfo, port, or dot segments                                      *)
(***************************************************************************)
Str_http   == <<"h","t","t","p">>
Str_https  == <<"h","t","t","p","s">>
Str_ftp    == <<"f","t","p">>
Str_ws     == <<"w","s">>
Str_wss    == <<"w","s","s">>
Str_colon  == <<":">>
Str_slash  == <<"/">>
Str_css    == <<":","/","/">>

SpecialSchemes == {Str_http, Str_https, Str_ftp, Str_ws, Str_wss}

\* the schemes fetch() of the runtime sends over the network
FetchSchemes == {Str_http, Str_https}

IsSchemeChar(c) == IsAlpha(c) \/ c \in DigitChars \/ c \in {"+", "-", "."}

\* characters that may not occur in the host of a special URL
ForbiddenHostChars == {" ", "\t", "\n", "\r", "#", "<", ">", "?", "@", "[",
                       "\\", "]", "^", "|", "%"}

\* the first position >= i of s that is no slash or backslash
SkipSlashes(s, i) ==
  LET S == {k \in i..Len(s) : s[k] \notin {"/", "\\"}}
  IN  IF S = {} THEN Len(s) + 1 ELSE MinOf(S)

InvalidURL == [ok |-> FALSE, protocol |-> <<>>, host |-> <<>>,
               pathname |-> <<>>, search |-> <<>>, hash |-> <<>>,
               href |-> <<>>]

\* the segments of a path: the substrings between its slashes, from i on
RECURSIVE Segments(_, _)
Segments(path, i) ==
  LET j == FindChar(path, {"/"}, i)
  IN  IF j > Len(path) THEN <<Sub(path, i, Len(path))>>
      ELSE <<Sub(path, i, j - 1)>> \o Segments(path, j + 1)

Seg_dot    == <<".">>
Seg_dotdot == <<".",".">>

\* the URL parser's handling of the segments . and .. : out is the path so far
RECURSIVE DotSegments(_, _)
DotSegments(segs, out) ==
  IF segs = <<>> THEN out
  ELSE LET s    == Head(segs)
           last == Len(segs) = 1
           up   == IF out = <<>> THEN <<>> ELSE SubSeq(out, 1, Len(out) - 1)
       IN  IF s = Seg_dotdot
           THEN DotSegments(Tail(segs), IF last THEN up \o <<<<>>>> ELSE up)
           ELSE IF s = Seg_dot
           THEN DotSegments(Tail(segs), IF last THEN out \o <<<<>>>> ELSE out)
           ELSE DotSegments(Tail(segs), out \o <<s>>)

\* "/" + segs.join("/")
RECURSIVE JoinPath(_)
JoinPath(segs) ==
  IF segs = <<>> THEN <<>>
  ELSE Str_slash \o Head(segs) \o JoinPath(Tail(segs))

\* the path of a special URL as the parser stores it: backslashes are
\* slashes, dot segments are resolved, and the empty path is "/"
NormalizePath(raw) ==
  LET p    == [i \in DOMAIN raw |-> IF raw[i] = "\\" THEN "/" ELSE raw[i]]
      segs == IF p = <<>> THEN <<>> ELSE DotSegments(Segments(p, 2), <<>>)
  IN  IF segs = <<>> THEN Str_slash ELSE JoinPath(segs)

\* does s begin with a URL scheme and a colon
HasScheme(s) ==
  LET colon == FindChar(s, {":"}, 1)
  IN  /\ colon <= Len(s)
      /\ colon >= 2
      /\ IsAlpha(s[1])
      /\ \A i \in 2..(colon - 1) : IsSchemeChar(s[i])

\* a special URL from its parts
SpecialURL(scheme, host, path, search, hash) ==
  [ok |-> TRUE, protocol |-> scheme \o Str_colon, host |-> host,
   pathname |-> path, search |-> search, hash |-> hash,
   href |-> scheme \o Str_css \o host \o path \o search \o hash]

\* the decimal digits, by value
Digits == <<"0","1","2","3","4","5","6","7","8","9">>
DigitValue(c) == (CHOOSE n \in DOMAIN Digits : Digits[n] = c) - 1

\* the number a string of digits denotes
RECURSIVE PortValue(_)
PortValue(p) ==
  IF p = <<>> THEN 0
  ELSE 10 * PortValue(Sub(p, 1, Len(p) - 1)) + DigitValue(p[Len(p)])

\* the decimal numeral of a natural number
RECURSIVE Numeral(_)
Numeral(n) ==
  IF n < 10 THEN <<Digits[n + 1]>>
  ELSE Numeral(n \div 10) \o <<Digits[(n % 10) + 1]>>

\* the largest port number
MaxPort == 65535

\* the default port of a special scheme
DefaultPort(scheme) ==
  CASE scheme = Str_http -> 80
    [] scheme = Str_https -> 443
    [] scheme = Str_ws -> 80
    [] scheme = Str_wss -> 443
    [] OTHER -> 21

\* may this string follow the colon after the host: digits of a number
\* that is at most MaxPort, or nothing
PortOk(p) ==
  /\ \A i \in DOMAIN p : p[i] \in DigitChars
  /\ Len(p) <= 5 \/ \A i \in 1..(Len(p) - 5) : p[i] = "0"
  /\ PortValue(p) <= MaxPort

\* the port as the host of the URL shows it: nothing for no port and for
\* the default port of the scheme
PortSuffix(scheme, p) ==
  IF ~PortOk(p) \/ p = <<>> \/ PortValue(p) = DefaultPort(scheme) THEN <<>>
  ELSE Str_colon \o Numeral(PortValue(p))

\* NewURL as a parser that accepts every input as an https URL
NewURLLenient(input) ==
  [ok |-> TRUE, protocol |-> Str_https \o Str_colon, host |-> Trim(input),
   pathname |-> Str_slash, search |-> <<>>, hash |-> <<>>,
   href |-> Str_https \o Str_css \o Trim(input) \o Str_slash]

\* new URL(input): the parsed URL, or ok = FALSE where the constructor throws
NewURL(input) ==
  LET Parse(s, colon) ==
        LET scheme == LowerStr(Sub(s, 1, colon - 1))
            rest   == From(s, colon + 1)
            hstart == SkipSlashes(rest, 1)
            hend   == FindChar(rest, {"/", "\\", "?", "#"}, hstart)
            auth   == Sub(rest, hstart, hend - 1)
            pcolon == FindChar(auth, {":"}, 1)
            name   == LowerStr(Sub(auth, 1, pcolon - 1))
            port   == From(auth, pcolon + 1)
            host   == name \o PortSuffix(scheme, port)
            pend   == FindChar(rest, {"?", "#"}, hend)
            hpos   == FindChar(rest, {"#"}, pend)
        IN  IF ~HasScheme(s) THEN InvalidURL
            ELSE IF scheme \in SpecialSchemes
            THEN IF \/ name = <<>>
                    \/ \E i \in DOMAIN name : name[i] \in ForbiddenHostChars
                    \/ ~PortOk(port)
                 THEN InvalidURL
                 ELSE SpecialURL(scheme, host,
                                 NormalizePath(Sub(rest, hend, pend - 1)),
                                 Sub(rest, pend, hpos - 1), From(rest, hpos))
            ELSE [ok |-> TRUE, protocol |-> scheme \o Str_colon, host |-> <<>>,
                  pathname |-> rest, search |-> <<>>, hash |-> <<>>,
                  href |-> scheme \o Str_colon \o rest]
      Trimmed(s) == Parse(s, FindChar(s, {":"}, 1))
  IN  Trimmed(Trim(input))

\* the directory of a path: the path up to and including its last slash
DirOf(path) ==
  LET ix == {i \in DOMAIN path : path[i] = "/"}
  IN  IF ix = {} THEN Str_slash
      ELSE Sub(path, 1, CHOOSE i \in ix : \A j \in ix : j <= i)

\* new URL(input, base): input resolved against the special URL base
NewURLBase(input, baseUrl) ==
  LET Resolve(base, s) ==
        LET scheme == Sub(base.protocol, 1, Len(base.protocol) - 1)
            colon  == FindChar(s, {":"}, 1)
            qpos   == FindChar(s, {"?", "#"}, 1)
            hpos   == FindChar(s, {"#"}, 1)
            rel    == Sub(s, 1, qpos - 1)
            search == Sub(s, qpos, hpos - 1)
            hash   == From(s, hpos)
        IN  IF ~base.ok THEN InvalidURL
            ELSE IF HasScheme(s)
            THEN IF /\ LowerStr(Sub(s, 1, colon - 1)) = scheme
                    /\ ~(colon + 1 <= Len(s) /\ s[colon + 1] \in {"/", "\\"})
                 THEN \* a special scheme equal to the base's, without slashes: relative
                      SpecialURL(scheme, base.host,
                                 NormalizePath(DirOf(base.pathname)
                                               \o Sub(s, colon + 1, qpos - 1)),
                                 search, hash)
                 ELSE NewURL(s)
            ELSE IF s = <<>>
            THEN SpecialURL(scheme, base.host, base.pathname, base.search, <<>>)
            ELSE IF s[1] = "#"
            THEN SpecialURL(scheme, base.host, base.pathname, base.search, s)
            ELSE IF s[1] = "?"
            THEN SpecialURL(scheme, base.host, base.pathname, search, hash)
            ELSE IF s[1] \in {"/", "\\"}
            THEN IF Len(s) >= 2 /\ s[2] \in {"/", "\\"}
                 THEN NewURL(scheme \o Str_colon \o s)
                 ELSE SpecialURL(scheme, base.host, NormalizePath(rel), search, hash)
            ELSE SpecialURL(scheme, base.host,
                            NormalizePath(DirOf(base.pathname) \o rel), search, hash)
  IN  Resolve(NewURL(baseUrl), Trim(input))

(***************************************************************************)
(* parseHtml: the regular expressions of the extractor                     *)
(***************************************************************************)
Str_title    == <<"<","t","i","t","l","e">>
Str_titleEnd == <<"<","/","t","i","t","l","e",">">>
Str_Untitled == <<"U","n","t","i","t","l","e","d">>
Str_script   == <<"s","c","r","i","p","t">>
Str_style    == <<"s","t","y","l","e">>
Str_noscript == <<"n","o","s","c","r","i","p","t">>
Str_lt       == <<"<">>
Str_ltSlash  == <<"<","/">>
Str_gt       == <<">">>
Str_space    == <<" ">>

\* the match of /<title[^>]*>([^<]+)<\/title>/i that starts at i: the
\* positions of the inner text, or ok = FALSE
TitleMatchAt(html, i) ==
  LET j == FindChar(html, {">"}, i + Len(Str_title))
      k == FindChar(html, {"<"}, j + 1)
  IN  IF /\ MatchAtCI(html, Str_title, i)
         /\ j <= Len(html)
         /\ k <= Len(html)
         /\ k >= j + 2
         /\ MatchAtCI(html, Str_titleEnd, k)
      THEN [ok |-> TRUE, from |-> j + 1, to |-> k - 1]
      ELSE [ok |-> FALSE, from |-> 0, to |-> 0]

\* html.match(/<title[^>]*>([^<]+)<\/title>/i): the leftmost match
TitleMatch(html) ==
  LET i == FirstOf({k \in 1..Len(html) : TitleMatchAt(html, k).ok})
  IN  IF i = 0 THEN [ok |-> FALSE, from |-> 0, to |-> 0]
      ELSE TitleMatchAt(html, i)

\* ExtractTitle without the trim
ExtractTitleUntrimmed(html) ==
  LET m == TitleMatch(html)
  IN  IF m.ok THEN Sub(html, m.from, m.to) ELSE Str_Untitled

\* const title = titleMatch ? titleMatch[1].trim() : 'Untitled'
ExtractTitle(html) ==
  LET m == TitleMatch(html)
  IN  IF m.ok THEN Trim(Sub(html, m.from, m.to)) ELSE Str_Untitled

\* the end of the match of /<tag[^>]*>[\s\S]*?<\/tag>/i that starts at i,
\* or 0 where there is none
BlockMatchEnd(s, tag, i) ==
  LET open  == Str_lt \o tag
      close == Str_ltSlash \o tag \o Str_gt
      j == FindChar(s, {">"}, i + Len(open))
      k == IF j <= Len(s) THEN FindStrCI(s, close, j + 1) ELSE 0
  IN  IF MatchAtCI(s, open, i) /\ j <= Len(s) /\ k > 0
      THEN k + Len(close) - 1
      ELSE 0

\* s.replace(/<tag[^>]*>[\s\S]*?<\/tag>/gi, '')
\* from position i on: each match, left to right, is removed
RECURSIVE RemoveBlocks(_, _, _)
RemoveBlocks(s, tag, i) ==
  LET m == FirstOf({k \in i..Len(s) : BlockMatchEnd(s, tag, k) > 0})
  IN  IF m = 0 THEN From(s, i)
      ELSE Sub(s, i, m - 1) \o RemoveBlocks(s, tag, BlockMatchEnd(s, tag, m) + 1)

\* the end of the match of /<[^>]+>/ that starts at i, or 0
TagMatchEnd(s, i) ==
  LET j == FindChar(s, {">"}, i + 1)
  IN  IF s[i] = "<" /\ j <= Len(s) /\ j >= i + 2 THEN j ELSE 0

\* s.replace(/<[^>]+>/g, ' ')
RECURSIVE StripTags(_, _)
StripTags(s, i) ==
  LET m == FirstOf({k \in i..Len(s) : TagMatchEnd(s, k) > 0})
  IN  IF m = 0 THEN From(s, i)
      ELSE Sub(s, i, m - 1) \o Str_space \o StripTags(s, TagMatchEnd(s, m) + 1)

\* the first position >= i of s that is not white space, or Len(s) + 1
SkipSpace(s, i) ==
  LET S == {k \in i..Len(s) : ~IsSpace(s[k])}
  IN  IF S = {} THEN Len(s) + 1 ELSE MinOf(S)

\* s.replace(/\s+/g, ' ')
RECURSIVE CollapseSpace(_, _)
CollapseSpace(s, i) ==
  LET m == FirstOf({k \in i..Len(s) : IsSpace(s[k])})
  IN  IF m = 0 THEN From(s, i)
      ELSE Sub(s, i, m - 1) \o Str_space \o CollapseSpace(s, SkipSpace(s, m))

\* the alternatives of the navigation-word pattern; cookies? is both words
DenyWords == {
  <<"h","o","m","e">>,
  <<"a","b","o","u","t">>,
  <<"c","o","n","t","a","c","t">>,
  <<"p","r","i","v","a","c","y">>,
  <<"t","e","r","m","s">>,
  <<"c","o","o","k","i","e">>,
  <<"c","o","o","k","i","e","s">>,
  <<"l","o","g","i","n">>,
  <<"r","e","g","i","s","t","e","r">>,
  <<"s","i","g","n"," ","u","p">>,
  <<"s","i","g","n"," ","i","n">>,
  <<"m","e","n","u">>,
  <<"n","a","v","i","g","a","t","i","o","n">>,
  <<"f","o","o","t","e","r">>,
  <<"h","e","a","d","e","r">> }

\* the assertion \b between positions i - 1 and i of s
WordBoundary(s, i) ==
  LET before == i >= 2 /\ i - 1 <= Len(s) /\ IsWordChar(s[i - 1])
      after  == i >= 1 /\ i <= Len(s) /\ IsWordChar(s[i])
  IN  before # after

\* the navigation words that /\b(home|...|header)\b/i matches at i
DenyMatchesAt(s, i) ==
  {w \in DenyWords :
     /\ MatchAtCI(s, w, i)
     /\ WordBoundary(s, i)
     /\ WordBoundary(s, i + Len(w))}

\* s.replace(/\b(home|...|header)\b/gi, '')
RECURSIVE RemoveDenyWords(_, _)
RemoveDenyWords(s, i) ==
  LET m == FirstOf({k \in i..Len(s) : DenyMatchesAt(s, k) # {}})
  IN  IF m = 0 THEN From(s, i)
      ELSE Sub(s, i, m - 1)
           \o RemoveDenyWords(s, m + Len(CHOOSE w \in DenyMatchesAt(s, m) : TRUE))

\* the content length limit of parseHtml
ContentLimit == 15000

\* the text content of parseHtml
ExtractContent(html) ==
  LET c1 == RemoveBlocks(html, Str_script, 1)
      c2 == RemoveBlocks(c1, Str_style, 1)
      c3 == RemoveBlocks(c2, Str_noscript, 1)
      c4 == StripTags(c3, 1)
      c5 == Trim(CollapseSpace(c4, 1))
      c6 == RemoveDenyWords(c5, 1)
  IN  IF Len(c6) > ContentLimit THEN Sub(c6, 1, ContentLimit) ELSE c6

HeadingDigits == {"1","2","3","4","5","6"}
Str_h     == <<"<","h">>
Str_hEnd  == <<"<","/","h">>
Str_a     == <<"<","a">>
Str_aEnd  == <<"<","/","a",">">>
Str_href  == <<"h","r","e","f","=">>
Quotes    == {"\"", "'"}

NoMatch == [ok |-> FALSE, from |-> 0, to |-> 0]

\* the match of /<h[1-6][^>]*>([^<]+)<\/h[1-6]>/i that starts at i: the
\* positions of the whole match, or ok = FALSE
HeadingMatchAt(html, i) ==
  LET j == FindChar(html, {">"}, i + 3)
      k == FindChar(html, {"<"}, j + 1)
  IN  IF /\ MatchAtCI(html, Str_h, i)
         /\ i + 2 <= Len(html)
         /\ html[i + 2] \in HeadingDigits
         /\ j <= Len(html)
         /\ k <= Len(html)
         /\ k >= j + 2
         /\ MatchAtCI(html, Str_hEnd, k)
         /\ k + 4 <= Len(html)
         /\ html[k + 3] \in HeadingDigits
         /\ html[k + 4] = ">"
      THEN [ok |-> TRUE, from |-> i, to |-> k + 4]
      ELSE NoMatch

\* html.match(/<h[1-6][^>]*>([^<]+)<\/h[1-6]>/gi) || []: the matched
\* substrings, left to right, not overlapping
RECURSIVE HeadingMatches(_, _)
HeadingMatches(html, i) ==
  LET s == FirstOf({k \in i..Len(html) : HeadingMatchAt(html, k).ok})
      m == HeadingMatchAt(html, s)
  IN  IF s = 0 THEN <<>>
      ELSE <<Sub(html, m.from, m.to)>> \o HeadingMatches(html, m.to + 1)

\* match.match(/>([^<]+)</): the capture of the leftmost match
TextMatchPlus(m) ==
  LET i == FirstOf({k \in 1..Len(m) :
                      /\ m[k] = ">"
                      /\ FindChar(m, {"<"}, k + 1) <= Len(m)
                      /\ FindChar(m, {"<"}, k + 1) >= k + 2})
  IN  IF i = 0 THEN NoMatch
      ELSE [ok |-> TRUE, from |-> i + 1, to |-> FindChar(m, {"<"}, i + 1) - 1]

\* match.match(/>([^<]*)</): the capture of the leftmost match
TextMatchStar(m) ==
  LET i == FirstOf({k \in 1..Len(m) :
                      /\ m[k] = ">"
                      /\ FindChar(m, {"<"}, k + 1) <= Len(m)})
  IN  IF i = 0 THEN NoMatch
      ELSE [ok |-> TRUE, from |-> i + 1, to |-> FindChar(m, {"<"}, i + 1) - 1]

\* the callback of headingMatches.map
HeadingText(match) ==
  LET tm == TextMatchPlus(match)
  IN  IF tm.ok THEN Trim(Sub(match, tm.from, tm.to)) ELSE <<>>

\* Array.prototype.filter, for a set of kept values
RECURSIVE FilterSeq(_, _)
FilterSeq(seq, keep) ==
  IF seq = <<>> THEN <<>>
  ELSE (IF Head(seq) \in keep THEN <<Head(seq)>> ELSE <<>>)
       \o FilterSeq(Tail(seq), keep)

\* Slice as a function that returns the whole array
SliceAll(seq, n) == seq

\* Array.prototype.slice(0, n)
Slice(seq, n) == Sub(seq, 1, n)

\* the limits of parseHtml on the heading and link lists
MaxHeadings == 20
MaxLinks == 50

\* ExtractHeadings with the limit applied before the filter
ExtractHeadingsCapFirst(html) ==
  LET matches == HeadingMatches(html, 1)
      texts   == [n \in DOMAIN matches |-> HeadingText(matches[n])]
      sliced  == Slice(texts, MaxHeadings)
  IN  FilterSeq(sliced, {h \in Range(sliced) : Len(h) > 0})

\* the headings of parseHtml
ExtractHeadings(html) ==
  LET matches == HeadingMatches(html, 1)
      texts   == [n \in DOMAIN matches |-> HeadingText(matches[n])]
      kept    == FilterSeq(texts, {h \in Range(texts) : Len(h) > 0})
  IN  Slice(kept, MaxHeadings)

\* the rest of /href=["']([^"']+)["'][^>]*>([^<]*)<\/a>/i from the href= at p:
\* the end of the match, or 0
LinkTailEnd(html, p) ==
  LET q == p + Len(Str_href)
      e == FindChar(html, Quotes, q + 1)
      g == FindChar(html, {">"}, e + 1)
      k == FindChar(html, {"<"}, g + 1)
  IN  IF /\ MatchAtCI(html, Str_href, p)
         /\ q <= Len(html)
         /\ html[q] \in Quotes
         /\ e <= Len(html)
         /\ e >= q + 2
         /\ g <= Len(html)
         /\ k <= Len(html)
         /\ MatchAtCI(html, Str_aEnd, k)
      THEN k + Len(Str_aEnd) - 1
      ELSE 0

\* the match of /<a[^>]+href=["']([^"']+)["'][^>]*>([^<]*)<\/a>/i that starts
\* at i: [^>]+ is greedy, so the href= taken is the last one that completes
LinkMatchAt(html, i) ==
  LET stop == FindChar(html, {">"}, i + 2)
      ps == {p \in (i + 3)..stop : LinkTailEnd(html, p) > 0}
      p  == CHOOSE x \in ps : \A y \in ps : y <= x
  IN  IF MatchAtCI(html, Str_a, i) /\ ps # {}
      THEN [ok |-> TRUE, from |-> i, to |-> LinkTailEnd(html, p)]
      ELSE NoMatch

\* html.match(/<a[^>]+href=...<\/a>/gi) || []
RECURSIVE LinkMatches(_, _)
LinkMatches(html, i) ==
  LET s == FirstOf({k \in i..Len(html) : LinkMatchAt(html, k).ok})
      m == LinkMatchAt(html, s)
  IN  IF s = 0 THEN <<>>
      ELSE <<Sub(html, m.from, m.to)>> \o LinkMatches(html, m.to + 1)

\* the match of /href=["']([^"']+)["']/i that starts at i: its capture
HrefMatchAt(m, i) ==
  LET q == i + Len(Str_href)
      e == FindChar(m, Quotes, q + 1)
  IN  IF /\ MatchAtCI(m, Str_href, i)
         /\ q <= Len(m)
         /\ m[q] \in Quotes
         /\ e <= Len(m)
         /\ e >= q + 2
      THEN [ok |-> TRUE, from |-> q + 1, to |-> e - 1]
      ELSE NoMatch

\* match.match(/href=["']([^"']+)["']/i): the capture of the leftmost match
HrefMatch(m) ==
  LET i == FirstOf({k \in 1..Len(m) : HrefMatchAt(m, k).ok})
  IN  IF i = 0 THEN NoMatch ELSE HrefMatchAt(m, i)

Str_javascript == <<"j","a","v","a","s","c","r","i","p","t",":">>
Str_mailto     == <<"m","a","i","l","t","o",":">>
Str_dotSlash   == <<".","/">>

\* the value the callback of linkMatches.map returns where it returns null
NullLink == [text |-> <<>>, url |-> <<>>, null |-> TRUE]

\* LinkOf with a rooted href appended to the whole base URL
LinkOfFromBaseHref(match, baseUrl) ==
  LET Link(hrefMatch, href0, text, base, resolved) ==
        LET failed ==
              /\ ~StartsWith(href0, Str_slash)
              /\ StartsWith(href0, Str_dotSlash) \/ ~Includes(href0, Str_css)
              /\ ~resolved.ok
            href  == IF StartsWith(href0, Str_slash)
                     THEN base.href \o href0
                     ELSE IF \/ StartsWith(href0, Str_dotSlash)
                             \/ ~Includes(href0, Str_css)
                     THEN resolved.href
                     ELSE href0
        IN  IF ~hrefMatch.ok \/ failed THEN NullLink
            ELSE [text |-> IF text # <<>> THEN text ELSE href, url |-> href,
                  null |-> FALSE]
      Texts(hrefMatch, textMatch, href0) ==
        Link(hrefMatch, href0,
             IF textMatch.ok THEN Trim(Sub(match, textMatch.from, textMatch.to))
             ELSE href0,
             NewURL(baseUrl), NewURLBase(href0, baseUrl))
      Matches(hrefMatch, textMatch) ==
        Texts(hrefMatch, textMatch, Sub(match, hrefMatch.from, hrefMatch.to))
  IN  Matches(HrefMatch(match), TextMatchStar(match))

\* the callback of linkMatches.map
LinkOf(match, baseUrl) ==
  LET Link(hrefMatch, href0, text, base, resolved) ==
        LET failed ==
              /\ ~StartsWith(href0, Str_slash)
              /\ StartsWith(href0, Str_dotSlash) \/ ~Includes(href0, Str_css)
              /\ ~resolved.ok
            href  == IF StartsWith(href0, Str_slash)
                     THEN base.protocol \o <<"/","/">> \o base.host \o href0
                     ELSE IF \/ StartsWith(href0, Str_dotSlash)
                             \/ ~Includes(href0, Str_css)
                     THEN resolved.href
                     ELSE href0
        IN  IF ~hrefMatch.ok \/ failed THEN NullLink
            ELSE [text |-> IF text # <<>> THEN text ELSE href, url |-> href,
                  null |-> FALSE]
      Texts(hrefMatch, textMatch, href0) ==
        Link(hrefMatch, href0,
             IF textMatch.ok THEN Trim(Sub(match, textMatch.from, textMatch.to))
             ELSE href0,
             NewURL(baseUrl), NewURLBase(href0, baseUrl))
      Matches(hrefMatch, textMatch) ==
        Texts(hrefMatch, textMatch, Sub(match, hrefMatch.from, hrefMatch.to))
  IN  Matches(HrefMatch(match), TextMatchStar(match))

\* the predicate of the filter on the links
KeepLink(link) ==
  /\ ~link.null
  /\ Len(link.text) > 0
  /\ Len(link.url) > 0
  /\ ~StartsWith(link.url, Str_javascript)
  /\ ~StartsWith(link.url, Str_mailto)

\* ExtractLinks with the limit applied before the filter
ExtractLinksCapFirst(html, baseUrl) ==
  LET Filtered(sliced) ==
        [n \in DOMAIN sliced |-> [text |-> sliced[n].text, url |-> sliced[n].url]]
      Sliced(mapped) ==
        Filtered(FilterSeq(Slice(mapped, MaxLinks),
                           {l \in Range(mapped) : KeepLink(l)}))
      Mapped(matches) ==
        Sliced([n \in DOMAIN matches |-> LinkOf(matches[n], baseUrl)])
  IN  Mapped(LinkMatches(html, 1))

\* the links of parseHtml
ExtractLinks(html, baseUrl) ==
  LET Sliced(kept) ==
        Slice([n \in DOMAIN kept |-> [text |-> kept[n].text, url |-> kept[n].url]],
              MaxLinks)
      Filtered(mapped) ==
        Sliced(FilterSeq(mapped, {l \in Range(mapped) : KeepLink(l)}))
      Mapped(matches) ==
        Filtered([n \in DOMAIN matches |-> LinkOf(matches[n], baseUrl)])
  IN  Mapped(LinkMatches(html, 1))

\* parseHtml(html, baseUrl)
parseHtml(html, baseUrl) ==
  [title    |-> ExtractTitle(html),
   content  |-> ExtractContent(html),
   headings |-> ExtractHeadings(html),
   links    |-> ExtractLinks(html, baseUrl)]

(***************************************************************************)
(* The edge function: Deno.serve(async (req) => { ... })                   *)
(***************************************************************************)
\* the number of requests the function serves, concurrently
NumRuns == 2
Runs == 1..NumRuns

\* a JavaScript value that may be null or undefined
JsNull == [isNull |-> TRUE, value |-> <<>>]
Js(v)  == [isNull |-> FALSE, value |-> v]

\* the truthiness of a nullable string: !x is true of null and of ''
Truthy(x) == ~x.isNull /\ x.value # <<>>

VARIABLES
  run,            \* the locals of each invocation of the handler
  store,          \* the rows of table scraped_results, in insertion order
  OPENAI_API_KEY, \* Deno.env.get('OPENAI_API_KEY'): TRUE where it is set
  extract,        \* a call of parseHtml on its own: arguments and result
  app,            \* the state of the client's WebScraperApp component
  themeProvider,  \* the state of the client's ThemeProvider component
  user_preferences \* the theme in the user's row of table user_preferences

vars == <<run, store, OPENAI_API_KEY, extract, app, themeProvider,
          user_preferences>>

\* ----- the environment's inputs ------------------------------------------
\* request methods
Methods == {"POST", "OPTIONS"}

\* Authorization headers: none, and bearer tokens
NoHeader == "none"
Headers == {NoHeader, "Bearer tokA", "Bearer tokB", "Bearer expired"}

\* authHeader.replace('Bearer ', '')
TokenOf(h) ==
  CASE h = "Bearer tokA" -> "tokA"
    [] h = "Bearer tokB" -> "tokB"
    [] h = "Bearer expired" -> "expired"
    [] OTHER -> h

\* the identity service: the user of a token, "none" where it rejects it
NoUser == "none"
UserOf(token) ==
  CASE token = "tokA" -> "userA"
    [] token = "tokB" -> "userB"
    [] OTHER -> NoUser

Url_page    == <<"h","t","t","p","s",":","/","/","S",".","t","/","p">>
Url_bare    == <<"s",".","t">>
Url_mail    == <<"m","a","i","l","t","o",":","a">>

\* the url member of the request body: absent, empty, or a string
BodyUrls == {JsNull, Js(<<>>), Js(Url_bare), Js(Url_page), Js(Url_mail)}

\* HTTP statuses of the target's response
FetchStatuses == {200, 304, 404, 500}

\* IsOk as a test that takes redirects and not-modified answers as success
IsOkBelow400(status) == status >= 200 /\ status < 400

\* Response.ok
IsOk(status) == status >= 200 /\ status <= 299

Doc_empty == <<>>
Doc_nav   == <<"<","p",">","H","o","m","e","<","/","p",">",
               "<","p",">","A","b","o","u","t","<","/","p",">">>
Doc_page  == <<"<","t","i","t","l","e",">","T","<","/","t","i","t","l","e",">",
               "<","h","1",">","A","<","/","h","1",">",
               "<","a"," ","h","r","e","f","=","\"","/","x","\"",">","G","o",
               "<","/","a",">">>

\* the documents the target serves
Docs == {Doc_empty, Doc_nav, Doc_page}

Str_summary == <<"S","u","m">>

\* what the completion service answers: the call throws; a status that is
\* not ok; a body that is no JSON; or a JSON body, whose choices member is
\* missing, empty, or holds a first choice with or without message content
ThrowReply      == [kind |-> "throw", status |-> 0, choices |-> "none",
                    content |-> JsNull]
StatusReply(n)  == [kind |-> "status", status |-> n, choices |-> "none",
                    content |-> JsNull]
BadJsonReply    == [kind |-> "badjson", status |-> 200, choices |-> "none",
                    content |-> JsNull]
JsonReply(ch, c) == [kind |-> "json", status |-> 200, choices |-> ch,
                     content |-> c]
NoReply         == [kind |-> "none", status |-> 0, choices |-> "none",
                    content |-> JsNull]

OpenAIReplies ==
  {ThrowReply, StatusReply(500), BadJsonReply,
   JsonReply("missing", JsNull), JsonReply("empty", JsNull),
   JsonReply("first", JsNull), JsonReply("first", Js(<<>>)),
   JsonReply("first", Js(<<" ", "\n">>)),
   JsonReply("first", Js(<<" ">> \o Str_summary \o <<" ">>))}

\* the messages of the store's errors
DbErrors == {"duplicate key", "connection refused"}

\* ----- errors and responses -----------------------------------------------
\* new Error(msg), with the status or the store's message it interpolates
Err(msg, status, detail) == [msg |-> msg, status |-> status, detail |-> detail]
NoError == Err("", 0, "")

NoRow == [id |-> 0, user_id |-> NoUser, url |-> <<>>, title |-> <<>>,
          content |-> <<>>, headings |-> <<>>, links |-> <<>>,
          ai_summary |-> JsNull, analysis_status |-> "", created_at |-> 0]

NoData == [id |-> 0, url |-> <<>>, title |-> <<>>, content |-> <<>>,
           headings |-> <<>>, links |-> <<>>, aiSummary |-> JsNull,
           analysisStatus |-> "", timestamp |-> 0]

NoResponse == [kind |-> "none", status |-> 0, success |-> FALSE,
               error |-> NoError, data |-> NoData]

\* the response to a CORS preflight request
PreflightResponse == [kind |-> "preflight", status |-> 200, success |-> FALSE,
                      error |-> NoError, data |-> NoData]

\* the status of a Response built without one
DefaultStatus == 200

\* the status the catch block of the handler gives its response
CatchStatus == 400

\* the response of the catch block: error.message || 'An unexpected error occurred'
ErrorResponse(e) ==
  [kind |-> "failure", status |-> CatchStatus, success |-> FALSE,
   error |-> IF e.msg = "" THEN Err("An unexpected error occurred", 0, "") ELSE e,
   data |-> NoData]

\* the response of the try block: the projection of the saved row
SuccessResponse(savedResult) ==
  [kind |-> "success", status |-> DefaultStatus, success |-> TRUE,
   error |-> NoError,
   data |-> [id |-> savedResult.id, url |-> savedResult.url,
             title |-> savedResult.title, content |-> savedResult.content,
             headings |-> savedResult.headings, links |-> savedResult.links,
             aiSummary |-> savedResult.ai_summary,
             analysisStatus |-> savedResult.analysis_status,
             timestamp |-> savedResult.created_at]]

NoScraped == [title |-> <<>>, content |-> <<>>, headings |-> <<>>, links |-> <<>>]

NoPrompt == [sent |-> FALSE, title |-> <<>>, content |-> <<>>]

\* the locals of an invocation that has not started
IdleRun ==
  [pc |-> "idle", method |-> "", authHeader |-> NoHeader, user |-> NoUser,
   url |-> JsNull, targetUrl |-> <<>>, fetchStatus |-> 0, html |-> <<>>,
   scrapedData |-> NoScraped, aiSummary |-> <<>>, analysisStatus |-> "",
   prompt |-> NoPrompt, reply |-> NoReply, inserted |-> NoRow,
   dbError |-> "", response |-> NoResponse, calls |-> <<>>]

\* the client's component as it is mounted: the useState initial values,
\* and no submission under way
InitialApp ==
  [pc |-> "idle", typed |-> <<>>, url |-> <<>>, isLoading |-> FALSE,
   error |-> NoError, successMessage |-> "", currentResult |-> NoData,
   showSavedResults |-> FALSE, savedResults |-> <<>>,
   normalizedUrl |-> <<>>, token |-> NoHeader, run |-> 0,
   loadingSavedResults |-> FALSE, selectedResults |-> {},
   isSelectionMode |-> FALSE, deletingResults |-> {},
   loads |-> {}, loadCount |-> 0, deletes |-> {}, deleteCount |-> 0]

\* no call of parseHtml on its own
NoExtract ==
  [family |-> "none", pre |-> <<>>, open |-> <<>>, inner |-> <<>>,
   post |-> <<>>, count |-> 0, scheme |-> <<>>, host |-> <<>>,
   path |-> <<>>, html |-> <<>>, baseUrl |-> <<>>, pc |-> "none",
   scrapedData |-> NoScraped, prompt |-> NoPrompt]

\* no row in user_preferences, or no theme in the data of a select
NoTheme == "none"
Themes == {"light", "dark"}

\* the ThemeProvider as it is constructed: the useState initial values
InitialTheme ==
  [theme |-> "dark", isLoading |-> TRUE, user |-> NoUser,
   systemTheme |-> "dark", loads |-> {}, upserts |-> {},
   userChanges |-> 0, toggles |-> 0, failed |-> FALSE]

Init ==
  /\ run = [r \in Runs |-> IdleRun]
  /\ store = <<>>
  /\ OPENAI_API_KEY \in BOOLEAN
  /\ extract = NoExtract
  /\ app = InitialApp
  /\ themeProvider = InitialTheme
  /\ user_preferences = NoTheme

\* Throw with a catch block that returns nothing
ThrowNoResponse(r, e, upd) ==
  run' = [run EXCEPT ![r] = [upd EXCEPT !.pc = "done"]]

\* the handler's catch block: the run ends with the error's response
Throw(r, e, upd) ==
  run' = [run EXCEPT ![r] = [upd EXCEPT !.pc = "done",
                                        !.response = ErrorResponse(e)]]

\* one more external call, or its outcome, in the run's record of calls
Called(rec, what) == [rec EXCEPT !.calls = Append(@, what)]

\* ----- generateAISummary ---------------------------------------------------
\* const maxContentLength = 12000
maxContentLength == 12000

Str_ellipsis == <<".",".",".">>
Str_sentinel == <<"S","u","m","m","a","r","y"," ","c","o","u","l","d"," ",
                  "n","o","t"," ","b","e"," ","g","e","n","e","r","a","t",
                  "e","d",".">>

\* TruncatedContent with a test that also cuts a content of exactly
\* maxContentLength characters
TruncatedContentAtLimit(content) ==
  IF Len(content) >= maxContentLength
  THEN Sub(content, 1, maxContentLength) \o Str_ellipsis
  ELSE content

\* the content generateAISummary puts in its prompt
TruncatedContent(content) ==
  IF Len(content) > maxContentLength
  THEN Sub(content, 1, maxContentLength) \o Str_ellipsis
  ELSE content

\* SummaryThrows as a function that also throws on a reply without text
SummaryThrowsOnEmpty(reply) ==
  \/ reply.kind \in {"throw", "status", "badjson"}
  \/ reply.kind = "json" /\ reply.choices \in {"missing", "empty"}
  \/ reply.kind = "json" /\ reply.content.isNull
  \/ reply.kind = "json" /\ Trim(reply.content.value) = <<>>

\* does generateAISummary throw on this reply: the fetch rejects, the
\* response is not ok, its body is no JSON, or data.choices is undefined
SummaryThrows(reply) ==
  \/ reply.kind = "throw"
  \/ reply.kind = "status" /\ ~IsOk(reply.status)
  \/ reply.kind = "badjson"
  \/ reply.kind = "json" /\ reply.choices = "missing"

\* SummaryOf without the || 'Summary could not be generated.' fallback
SummaryOfNoFallback(reply) ==
  IF reply.choices = "first" /\ ~reply.content.isNull
  THEN Trim(reply.content.value) ELSE <<>>

\* data.choices[0]?.message?.content?.trim() || 'Summary could not be generated.'
SummaryOf(reply) ==
  LET text == IF reply.choices = "first" /\ ~reply.content.isNull
              THEN Trim(reply.content.value) ELSE <<>>
  IN  IF text # <<>> THEN text ELSE Str_sentinel

\* ----- the store -----------------------------------------------------------
\* the values constraint scraped_results_analysis_status_check admits
AnalysisStatuses == {"pending", "processing", "completed", "failed"}

\* InsertValues with the user of the first invocation in place of the
\* invocation's own
InsertValuesFirstUser(rec) ==
  [id |-> 0, user_id |-> run[1].user, url |-> rec.targetUrl,
   title |-> rec.scrapedData.title, content |-> rec.scrapedData.content,
   headings |-> rec.scrapedData.headings, links |-> rec.scrapedData.links,
   ai_summary |-> IF rec.aiSummary # <<>> THEN Js(rec.aiSummary) ELSE JsNull,
   analysis_status |-> rec.analysisStatus, created_at |-> 0]

\* the row the handler inserts: ai_summary is aiSummary || null
InsertValues(rec) ==
  [id |-> 0, user_id |-> rec.user, url |-> rec.targetUrl,
   title |-> rec.scrapedData.title, content |-> rec.scrapedData.content,
   headings |-> rec.scrapedData.headings, links |-> rec.scrapedData.links,
   ai_summary |-> IF rec.aiSummary # <<>> THEN Js(rec.aiSummary) ELSE JsNull,
   analysis_status |-> rec.analysisStatus, created_at |-> 0]

\* the row as the store keeps it: id and created_at are the store's
StoredRow(values, n) == [values EXCEPT !.id = n, !.created_at = n]

\* ----- the steps of the handler --------------------------------------------
\* a request arrives (the invocations are numbered in the order of arrival):
\* the preflight answer, or the Authorization header is read and
\* auth.getUser(token) is called
Receive(r) ==
  /\ run[r].pc = "idle"
  /\ \A q \in Runs : q < r => run[q].pc # "idle"
  /\ \E m \in Methods, h \in Headers :
       LET rec == [run[r] EXCEPT !.method = m, !.authHeader = h]
       IN  IF m = "OPTIONS"
           THEN run' = [run EXCEPT ![r] = [rec EXCEPT
                          !.authHeader = NoHeader,
                          !.pc = "done", !.response = PreflightResponse]]
           ELSE IF h = NoHeader
           THEN Throw(r, Err("No authorization header", 0, ""), rec)
           ELSE run' = [run EXCEPT ![r] =
                          [Called(rec, "getUser") EXCEPT !.pc = "getUser"]]
  /\ UNCHANGED <<store, OPENAI_API_KEY, extract, app, themeProvider, user_preferences>>

\* GetUserReturn without the check of authError and user
GetUserReturnUnchecked(r) ==
  /\ run[r].pc = "getUser"
  /\ \E authError \in BOOLEAN :
       LET user == IF authError THEN NoUser ELSE UserOf(TokenOf(run[r].authHeader))
       IN  run' = [run EXCEPT ![r] =
                     [Called(run[r], IF authError \/ user = NoUser
                                     THEN "getUser.err" ELSE "getUser.ok")
                        EXCEPT !.user = user, !.pc = "json"]]
  /\ UNCHANGED <<store, OPENAI_API_KEY, extract, app, themeProvider, user_preferences>>

\* auth.getUser(token) returns: the token's user, or an error
GetUserReturn(r) ==
  /\ run[r].pc = "getUser"
  /\ \E authError \in BOOLEAN :
       LET user == IF authError THEN NoUser ELSE UserOf(TokenOf(run[r].authHeader))
       IN  IF authError \/ user = NoUser
           THEN Throw(r, Err("Invalid authentication", 0, ""),
                      Called(run[r], "getUser.err"))
           ELSE run' = [run EXCEPT ![r] =
                          [Called(run[r], "getUser.ok") EXCEPT
                             !.user = user, !.pc = "json"]]
  /\ UNCHANGED <<store, OPENAI_API_KEY, extract, app, themeProvider, user_preferences>>

\* req.json() returns or throws; the url is validated and fetch is called
JsonReturn(r) ==
  /\ run[r].pc = "json"
  /\ \/ /\ app.run # r
        /\ Throw(r, Err("Unexpected end of JSON input", 0, ""), run[r])
     \/ \E url \in IF app.run = r THEN {Js(app.normalizedUrl)} ELSE BodyUrls :
          LET rec == [run[r] EXCEPT !.url = url]
              targetUrl == NewURL(url.value)
          IN  IF ~Truthy(url)
              THEN Throw(r, Err("URL is required", 0, ""), rec)
              ELSE IF ~targetUrl.ok
              THEN Throw(r, Err("Invalid URL format", 0, ""), rec)
              ELSE run' = [run EXCEPT ![r] =
                             [Called(rec, "fetch") EXCEPT
                                !.targetUrl = targetUrl.href, !.pc = "fetch"]]
  /\ UNCHANGED <<store, OPENAI_API_KEY, extract, app, themeProvider, user_preferences>>

\* FetchReturn with a second fetch after the first one rejected
FetchReturnRetries(r) ==
  /\ run[r].pc = "fetch"
  /\ \/ IF \E i \in DOMAIN run[r].calls : run[r].calls[i] = "fetch.err"
        THEN Throw(r, Err("error sending request", 0, ""),
                   Called(run[r], "fetch.err"))
        ELSE run' = [run EXCEPT ![r] =
                       Called(Called(run[r], "fetch.err"), "fetch")]
     \/ /\ NewURL(run[r].targetUrl).protocol \in
             {s \o Str_colon : s \in FetchSchemes}
        /\ \E status \in FetchStatuses :
             LET rec == [Called(run[r], "fetch.ok") EXCEPT !.fetchStatus = status]
             IN  IF ~IsOk(status)
                 THEN Throw(r, Err("Failed to fetch webpage: ", status, ""), rec)
                 ELSE run' = [run EXCEPT ![r] = [rec EXCEPT !.pc = "text"]]
  /\ UNCHANGED <<store, OPENAI_API_KEY, extract, app, themeProvider, user_preferences>>

\* fetch(targetUrl) rejects, or resolves with a response
FetchReturn(r) ==
  /\ run[r].pc = "fetch"
  /\ \/ Throw(r, Err("error sending request", 0, ""),
              Called(run[r], "fetch.err"))
     \/ /\ NewURL(run[r].targetUrl).protocol \in
             {s \o Str_colon : s \in FetchSchemes}
        /\ \E status \in FetchStatuses :
             LET rec == [Called(run[r], "fetch.ok") EXCEPT !.fetchStatus = status]
             IN  IF ~IsOk(status)
                 THEN Throw(r, Err("Failed to fetch webpage: ", status, ""), rec)
                 ELSE run' = [run EXCEPT ![r] = [rec EXCEPT !.pc = "text"]]
  /\ UNCHANGED <<store, OPENAI_API_KEY, extract, app, themeProvider, user_preferences>>

\* AfterText with generateAISummary called but not awaited
AfterTextNoAwait(rec, html) ==
  LET Parsed(scrapedData) ==
        LET parsed == [rec EXCEPT !.html = html, !.scrapedData = scrapedData,
                                  !.aiSummary = <<>>,
                                  !.analysisStatus = "pending"]
        IN  IF OPENAI_API_KEY /\ Trim(scrapedData.content) # <<>>
            THEN [Called(Called(parsed, "openai"), "insert") EXCEPT
                    !.prompt = [sent |-> TRUE, title |-> scrapedData.title,
                                content |-> TruncatedContent(scrapedData.content)],
                    !.pc = "insert"]
            ELSE [Called(parsed, "insert") EXCEPT !.pc = "insert"]
  IN  Parsed(parseHtml(html, rec.targetUrl))

\* AfterText without the test of OPENAI_API_KEY
AfterTextAlwaysEnrich(rec, html) ==
  LET Parsed(scrapedData) ==
        LET parsed == [rec EXCEPT !.html = html, !.scrapedData = scrapedData,
                                  !.aiSummary = <<>>,
                                  !.analysisStatus = "pending"]
        IN  IF Trim(scrapedData.content) # <<>>
            THEN [Called(parsed, "openai") EXCEPT
                    !.prompt = [sent |-> TRUE, title |-> scrapedData.title,
                                content |-> TruncatedContent(scrapedData.content)],
                    !.pc = "openai"]
            ELSE [Called(parsed, "insert") EXCEPT !.pc = "insert"]
  IN  Parsed(parseHtml(html, rec.targetUrl))

\* AfterText with a parse of the document the first invocation holds, where
\* it holds one
AfterTextSharedDocument(rec, html) ==
  LET Parsed(scrapedData) ==
        LET parsed == [rec EXCEPT !.html = html, !.scrapedData = scrapedData,
                                  !.aiSummary = <<>>,
                                  !.analysisStatus = "pending"]
        IN  IF OPENAI_API_KEY /\ Trim(scrapedData.content) # <<>>
            THEN [Called(parsed, "openai") EXCEPT
                    !.prompt = [sent |-> TRUE, title |-> scrapedData.title,
                                content |-> TruncatedContent(scrapedData.content)],
                    !.pc = "openai"]
            ELSE [Called(parsed, "insert") EXCEPT !.pc = "insert"]
  IN  Parsed(parseHtml(IF run[1].html # <<>> THEN run[1].html ELSE html,
                       rec.targetUrl))

\* AfterText with a test of the content that does not trim it
AfterTextUntrimmed(rec, html) ==
  LET Parsed(scrapedData) ==
        LET parsed == [rec EXCEPT !.html = html, !.scrapedData = scrapedData,
                                  !.aiSummary = <<>>,
                                  !.analysisStatus = "pending"]
        IN  IF OPENAI_API_KEY /\ scrapedData.content # <<>>
            THEN [Called(parsed, "openai") EXCEPT
                    !.prompt = [sent |-> TRUE, title |-> scrapedData.title,
                                content |-> TruncatedContent(scrapedData.content)],
                    !.pc = "openai"]
            ELSE [Called(parsed, "insert") EXCEPT !.pc = "insert"]
  IN  Parsed(parseHtml(html, rec.targetUrl))

\* the locals after parseHtml, and the call that follows: generateAISummary,
\* or the insert
AfterText(rec, html) ==
  LET Parsed(scrapedData) ==
        LET parsed == [rec EXCEPT !.html = html, !.scrapedData = scrapedData,
                                  !.aiSummary = <<>>,
                                  !.analysisStatus = "pending"]
        IN  IF OPENAI_API_KEY /\ Trim(scrapedData.content) # <<>>
            THEN [Called(parsed, "openai") EXCEPT
                    !.prompt = [sent |-> TRUE, title |-> scrapedData.title,
                                content |-> TruncatedContent(scrapedData.content)],
                    !.pc = "openai"]
            ELSE [Called(parsed, "insert") EXCEPT !.pc = "insert"]
  IN  Parsed(parseHtml(html, rec.targetUrl))

\* response.text() returns the document or throws
TextReturn(r) ==
  /\ run[r].pc = "text"
  /\ \/ Throw(r, Err("error decoding response body", 0, ""),
              Called(run[r], "text.err"))
     \/ \E html \in Docs :
          run' = [run EXCEPT ![r] = AfterText(Called(run[r], "text.ok"), html)]
  /\ UNCHANGED <<store, OPENAI_API_KEY, extract, app, themeProvider, user_preferences>>

\* AfterSummary with a catch block that leaves the status as it is
AfterSummaryKeepsPending(rec, reply) ==
  IF SummaryThrows(reply)
  THEN [Called(rec, "openai.err") EXCEPT !.reply = reply]
  ELSE [Called(rec, "openai.ok") EXCEPT
          !.reply = reply, !.aiSummary = SummaryOf(reply),
          !.analysisStatus = "completed"]

\* AfterSummary with a status that moves through processing
AfterSummaryViaProcessing(rec, reply) ==
  IF SummaryThrows(reply)
  THEN [Called(rec, "openai.err") EXCEPT
          !.reply = reply, !.analysisStatus = "failed"]
  ELSE [Called(rec, "openai.ok") EXCEPT
          !.reply = reply, !.aiSummary = SummaryOf(reply),
          !.analysisStatus = "processing"]

\* the locals after generateAISummary returned or threw on this reply
AfterSummary(rec, reply) ==
  IF SummaryThrows(reply)
  THEN [Called(rec, "openai.err") EXCEPT
          !.reply = reply, !.analysisStatus = "failed"]
  ELSE [Called(rec, "openai.ok") EXCEPT
          !.reply = reply, !.aiSummary = SummaryOf(reply),
          !.analysisStatus = "completed"]

\* the completion request ends; the row is sent to the store
OpenAIReturn(r) ==
  /\ run[r].pc = "openai"
  /\ \E reply \in OpenAIReplies :
       run' = [run EXCEPT ![r] =
                 [Called(AfterSummary(run[r], reply), "insert") EXCEPT
                    !.pc = "insert"]]
  /\ UNCHANGED <<store, OPENAI_API_KEY, extract, app, themeProvider, user_preferences>>

\* InsertReturn with a store that keeps the row of an insert it reports as
\* failed
InsertReturnKeepsRow(r) ==
  /\ run[r].pc = "insert"
  /\ LET values == InsertValues(run[r])
         row    == StoredRow(values, Len(store) + 1)
     IN  \/ /\ values.analysis_status \in AnalysisStatuses
            /\ store' = Append(store, row)
            /\ run' = [run EXCEPT ![r] =
                         [Called(run[r], "insert.ok") EXCEPT
                            !.inserted = row, !.pc = "done",
                            !.response = SuccessResponse(row)]]
         \/ /\ \E msg \in DbErrors :
                 Throw(r, Err("Database error: ", 0, msg),
                       [Called(run[r], "insert.err") EXCEPT !.dbError = msg])
            /\ store' = Append(store, row)
  /\ UNCHANGED <<OPENAI_API_KEY, extract, app, themeProvider, user_preferences>>

\* the insert ends: the row is stored and returned, or the store reports an
\* error
InsertReturn(r) ==
  /\ run[r].pc = "insert"
  /\ LET values == InsertValues(run[r])
         row    == StoredRow(values, Len(store) + 1)
     IN  \/ /\ values.analysis_status \in AnalysisStatuses
            /\ store' = Append(store, row)
            /\ run' = [run EXCEPT ![r] =
                         [Called(run[r], "insert.ok") EXCEPT
                            !.inserted = row, !.pc = "done",
                            !.response = SuccessResponse(row)]]
         \/ /\ \E msg \in DbErrors :
                 Throw(r, Err("Database error: ", 0, msg),
                       [Called(run[r], "insert.err") EXCEPT !.dbError = msg])
            /\ UNCHANGED store
  /\ UNCHANGED <<OPENAI_API_KEY, extract, app, themeProvider, user_preferences>>

Next ==
  \E r \in Runs :
    \/ Receive(r)
    \/ GetUserReturn(r)
    \/ JsonReturn(r)
    \/ FetchReturn(r)
    \/ TextReturn(r)
    \/ OpenAIReturn(r)
    \/ InsertReturn(r)

Spec == Init /\ [][Next]_vars

\* the awaited call of a run returns or fails
Served(r) ==
  \/ GetUserReturn(r)
  \/ JsonReturn(r)
  \/ FetchReturn(r)
  \/ TextReturn(r)
  \/ OpenAIReturn(r)
  \/ InsertReturn(r)

\* the function where every call a run awaits ends, with a result or an error
SpecLive == Spec /\ \A r \in Runs : WF_vars(Served(r))

\* ----- the caller goes away -------------------------------------------------
\* the client of a request that is being served disconnects: req.signal is
\* aborted. The handler never reads req.signal and passes it to none of its
\* calls, so its locals and its position are as they were
Disconnect(r) ==
  /\ run[r].pc \notin {"idle", "done"}
  /\ \A i \in DOMAIN run[r].calls : run[r].calls[i] # "disconnect"
  /\ run' = [run EXCEPT ![r] = Called(run[r], "disconnect")]
  /\ UNCHANGED <<store, OPENAI_API_KEY, extract, app, themeProvider, user_preferences>>

NextCancel ==
  \/ Next
  \/ \E r \in Runs : Disconnect(r)

\* the function serving requests whose callers may disconnect
SpecCancel == Init /\ [][NextCancel]_vars

(***************************************************************************)
(* The client: handleSubmit of WebScraperApp                               *)
(***************************************************************************)
Str_httpSlashes  == <<"h","t","t","p",":","/","/">>
Str_httpsSlashes == <<"h","t","t","p","s",":","/","/">>
Url_blank   == <<" ">>
Url_spaced  == <<" ","s",".","t"," ">>
Url_upper   == <<"H","T","T","P",":","/","/","S",".","t","/","p">>
Url_oneSlash == <<"h","t","t","p",":","/","s",".","t">>

\* what the user types into the input field
AppInputs == {Url_blank, Url_spaced, Url_page, Url_upper, Url_oneSlash, Url_mail}

\* supabase.auth.getSession(): no session, or the access token of one
Sessions == {NoHeader, "Bearer tokA"}

\* validateUrl: does new URL(url) return
validateUrl(url) == NewURL(url).ok

\* normalizeUrl: the trimmed input, with https:// before it unless it
\* matches /^https?:\/\//i
normalizeUrl(inputUrl) ==
  LET Normalized(normalizedUrl) ==
        IF \/ MatchAtCI(normalizedUrl, Str_httpSlashes, 1)
           \/ MatchAtCI(normalizedUrl, Str_httpsSlashes, 1)
        THEN normalizedUrl
        ELSE Str_httpsSlashes \o normalizedUrl
  IN  Normalized(Trim(inputUrl))

\* the synchronous part of handleSubmit with the validation applied to the
\* input as typed
SubmittedValidatesFirst(a, input) ==
  LET cleared == [a EXCEPT !.typed = input, !.url = input, !.error = NoError,
                           !.successMessage = "", !.normalizedUrl = <<>>,
                           !.run = 0]
  IN  IF Trim(input) = <<>>
      THEN [cleared EXCEPT !.error = Err("Please enter a URL", 0, "")]
      ELSE IF ~validateUrl(Trim(input))
      THEN [cleared EXCEPT !.error = Err("Please enter a valid URL", 0, "")]
      ELSE [cleared EXCEPT !.normalizedUrl = normalizeUrl(input),
                           !.url = normalizeUrl(input), !.isLoading = TRUE,
                           !.currentResult = NoData,
                           !.showSavedResults = FALSE, !.pc = "session"]

\* the synchronous part of handleSubmit, on the input field's text: the
\* state it leaves, up to the call of getSession
Submitted(a, input) ==
  LET cleared == [a EXCEPT !.typed = input, !.url = input, !.error = NoError,
                           !.successMessage = "", !.normalizedUrl = <<>>,
                           !.run = 0]
      Checked(normalizedUrl) ==
        IF ~validateUrl(normalizedUrl)
        THEN [cleared EXCEPT !.error = Err("Please enter a valid URL", 0, "")]
        ELSE [cleared EXCEPT !.normalizedUrl = normalizedUrl,
                             !.url = normalizedUrl, !.isLoading = TRUE,
                             !.currentResult = NoData,
                             !.showSavedResults = FALSE, !.pc = "session"]
  IN  IF Trim(input) = <<>>
      THEN [cleared EXCEPT !.error = Err("Please enter a URL", 0, "")]
      ELSE Checked(normalizeUrl(input))

\* the user types a text and submits the form (the field and the button are
\* disabled while a submission is under way)
HandleSubmit ==
  /\ app.pc = "idle"
  /\ ~app.isLoading
  /\ \E r \in Runs : run[r].pc = "idle"
  /\ \E input \in AppInputs : app' = Submitted(app, input)
  /\ UNCHANGED <<run, store, OPENAI_API_KEY, extract, themeProvider, user_preferences>>

\* getSession returns: without a session handleSubmit throws, else it posts
\* the normalized URL to the function
GetSessionReturn ==
  /\ app.pc = "session"
  /\ \E session \in Sessions :
       IF session = NoHeader
       THEN app' = [app EXCEPT !.error = Err("Not authenticated", 0, ""),
                               !.isLoading = FALSE, !.pc = "idle"]
       ELSE app' = [app EXCEPT !.token = session, !.pc = "fetch"]
  /\ UNCHANGED <<run, store, OPENAI_API_KEY, extract, themeProvider, user_preferences>>

\* the function receives the client's request: the Authorization header is
\* read and auth.getUser(token) is called
ReceiveApp(r) ==
  /\ app.pc = "fetch"
  /\ run[r].pc = "idle"
  /\ \A q \in Runs : q < r => run[q].pc # "idle"
  /\ run' = [run EXCEPT ![r] =
               [Called([run[r] EXCEPT !.method = "POST",
                                      !.authHeader = app.token], "getUser")
                  EXCEPT !.pc = "getUser"]]
  /\ app' = [app EXCEPT !.pc = "response", !.run = r]
  /\ UNCHANGED <<store, OPENAI_API_KEY, extract, themeProvider, user_preferences>>

\* the ScrapedResult the client makes of the data of a response
ResultOf(data) ==
  [id |-> data.id, url |-> data.url, title |-> data.title,
   headings |-> data.headings, links |-> data.links,
   timestamp |-> data.timestamp]

\* the response arrives: the result is shown and put before the saved
\* results, or the error is shown
ResponseReturn ==
  /\ app.pc = "response"
  /\ run[app.run].pc = "done"
  /\ IF run[app.run].response.success
     THEN app' = [app EXCEPT
                    !.currentResult = run[app.run].response.data,
                    !.savedResults =
                       <<ResultOf(run[app.run].response.data)>> \o @,
                    !.successMessage =
                       "Website scraped and saved successfully!",
                    !.url = <<>>, !.isLoading = FALSE, !.pc = "idle"]
     ELSE app' = [app EXCEPT !.error = run[app.run].response.error,
                             !.isLoading = FALSE, !.pc = "idle"]
  /\ UNCHANGED <<run, store, OPENAI_API_KEY, extract, themeProvider, user_preferences>>

NextApp ==
  \/ HandleSubmit
  \/ GetSessionReturn
  \/ ResponseReturn
  \/ \E r \in Runs :
       \/ ReceiveApp(r)
       \/ GetUserReturn(r)
       \/ JsonReturn(r)
       \/ FetchReturn(r)
       \/ TextReturn(r)
       \/ OpenAIReturn(r)
       \/ InsertReturn(r)

SpecApp == Init /\ [][NextApp]_vars

(***************************************************************************)
(* The client: the saved results, their selection and their deletion       *)
(***************************************************************************)
\* the numbers of calls of loadSavedResults after the one of the mount
\* effect, and of delete calls
NumLoads == 1
NumDeletes == 1

\* the rows of the table: the store keeps the place of a deleted row empty,
\* ids are not used again
IsRow(row) == row.id # 0

\* the callback of data.map in loadSavedResults
FormattedResult(item) ==
  [id |-> item.id, url |-> item.url,
   title |-> IF item.title # <<>> THEN item.title ELSE Str_Untitled,
   headings |-> item.headings, links |-> item.links,
   timestamp |-> item.created_at]

\* select('*').order('created_at', { ascending: false }), formatted: the
\* rows among the first n of the table, the newest first
RECURSIVE FormattedResults(_, _)
FormattedResults(rows, n) ==
  IF n = 0 THEN <<>>
  ELSE (IF IsRow(rows[n]) THEN <<FormattedResult(rows[n])>> ELSE <<>>)
       \o FormattedResults(rows, n - 1)

\* the ids of a list of results
IdsOf(results) == {results[i].id : i \in DOMAIN results}

\* prev.filter(result => !ids.has(result.id))
RECURSIVE WithoutIds(_, _)
WithoutIds(results, ids) ==
  IF results = <<>> THEN <<>>
  ELSE (IF Head(results).id \in ids THEN <<>> ELSE <<Head(results)>>)
       \o WithoutIds(Tail(results), ids)

\* a call of loadSavedResults whose query is on its way (calls at the same
\* point are held once: their returns do the same)
SentLoad == [pc |-> "sent", data |-> <<>>]

\* the component once mounted: the effect has called loadSavedResults
MountedApp ==
  [InitialApp EXCEPT !.loadingSavedResults = TRUE, !.loads = {SentLoad}]

InitSaved ==
  /\ run = [r \in Runs |-> IdleRun]
  /\ store = <<>>
  /\ OPENAI_API_KEY \in BOOLEAN
  /\ extract = NoExtract
  /\ app = MountedApp
  /\ themeProvider = InitialTheme
  /\ user_preferences = NoTheme

\* the submissions of this specification: the user types the URL of a page,
\* is signed in, the page is served and the row is stored
SavedScope ==
  /\ app.typed \in {<<>>, Url_page}
  /\ app.error = NoError
  /\ \A r \in Runs :
       /\ run[r].response.kind \in {"none", "success"}
       /\ run[r].html \in {<<>>, Doc_page}
       /\ run[r].reply \in
            {NoReply, JsonReply("first", Js(<<" ">> \o Str_summary \o <<" ">>))}

\* the Saved Results button: the panel is shown or hidden, and
\* loadSavedResults is called when it is shown
ToggleSavedResults ==
  /\ app.showSavedResults \/ app.loadCount < NumLoads
  /\ IF app.showSavedResults
     THEN app' = [app EXCEPT !.showSavedResults = FALSE]
     ELSE app' = [app EXCEPT !.showSavedResults = TRUE,
                             !.loadingSavedResults = TRUE,
                             !.loads = @ \cup {SentLoad},
                             !.loadCount = @ + 1]
  /\ UNCHANGED <<run, store, OPENAI_API_KEY, extract, themeProvider, user_preferences>>

\* the store runs the query of a call of loadSavedResults, or fails it
LoadQuery ==
  /\ SentLoad \in app.loads
  /\ \/ app' = [app EXCEPT !.loads = (@ \ {SentLoad}) \cup
                     {[pc |-> "ok",
                       data |-> FormattedResults(store, Len(store))]}]
     \/ app' = [app EXCEPT !.loads = (@ \ {SentLoad}) \cup
                     {[pc |-> "err", data |-> <<>>]}]
  /\ UNCHANGED <<run, store, OPENAI_API_KEY, extract, themeProvider, user_preferences>>

\* the query of a call of loadSavedResults returns: the list is replaced,
\* or the error is logged
LoadReturn ==
  /\ \E l \in app.loads :
       /\ l.pc # "sent"
       /\ app' = [app EXCEPT
                    !.savedResults = IF l.pc = "ok" THEN l.data ELSE @,
                    !.loadingSavedResults = FALSE,
                    !.loads = @ \ {l}]
  /\ UNCHANGED <<run, store, OPENAI_API_KEY, extract, themeProvider, user_preferences>>

\* the header of the panel is shown with its buttons
PanelButtons == app.showSavedResults /\ app.savedResults # <<>>

\* the list of the panel is shown
PanelList ==
  /\ app.showSavedResults
  /\ ~app.loadingSavedResults
  /\ app.savedResults # <<>>

\* the Select button: setIsSelectionMode(true)
EnterSelectionMode ==
  /\ PanelButtons
  /\ ~app.isSelectionMode
  /\ app' = [app EXCEPT !.isSelectionMode = TRUE]
  /\ UNCHANGED <<run, store, OPENAI_API_KEY, extract, themeProvider, user_preferences>>

\* toggleResultSelection
toggleResultSelection(selected, resultId) ==
  IF resultId \in selected THEN selected \ {resultId}
  ELSE selected \cup {resultId}

\* a click on a result of the list: viewSavedResult
ViewSavedResult ==
  /\ PanelList
  /\ \E i \in DOMAIN app.savedResults :
       IF app.isSelectionMode
       THEN app' = [app EXCEPT !.selectedResults =
                      toggleResultSelection(@, app.savedResults[i].id)]
       ELSE app' = [app EXCEPT !.currentResult = app.savedResults[i],
                               !.showSavedResults = FALSE]
  /\ UNCHANGED <<run, store, OPENAI_API_KEY, extract, themeProvider, user_preferences>>

\* toggleSelectAll
toggleSelectAll(selected, saved) ==
  IF Cardinality(selected) = Len(saved) THEN {} ELSE IdsOf(saved)

\* the Select All / Deselect All button
ToggleSelectAll ==
  /\ PanelButtons
  /\ app.isSelectionMode
  /\ app' = [app EXCEPT !.selectedResults =
                toggleSelectAll(@, app.savedResults)]
  /\ UNCHANGED <<run, store, OPENAI_API_KEY, extract, themeProvider, user_preferences>>

\* the Cancel button: exitSelectionMode
ExitSelectionMode ==
  /\ PanelButtons
  /\ app.isSelectionMode
  /\ app' = [app EXCEPT !.isSelectionMode = FALSE, !.selectedResults = {}]
  /\ UNCHANGED <<run, store, OPENAI_API_KEY, extract, themeProvider, user_preferences>>

\* the Delete Selected button, confirmed: deleteSelectedResults up to its
\* delete call, which holds the selection of the render it was made in
DeleteSelectedResults ==
  /\ PanelButtons
  /\ app.isSelectionMode
  /\ app.selectedResults # {}
  /\ app.deletingResults = {}
  /\ app.deleteCount < NumDeletes
  /\ app' = [app EXCEPT
               !.deletingResults = app.selectedResults,
               !.deletes = @ \cup {[kind |-> "selected", pc |-> "sent",
                                    ids |-> app.selectedResults]},
               !.deleteCount = @ + 1]
  /\ UNCHANGED <<run, store, OPENAI_API_KEY, extract, themeProvider, user_preferences>>

\* the delete button of a result, confirmed: deleteIndividualResult up to
\* its delete call
DeleteIndividualResult ==
  /\ PanelList
  /\ ~app.isSelectionMode
  /\ app.deleteCount < NumDeletes
  /\ \E i \in DOMAIN app.savedResults :
       /\ app.savedResults[i].id \notin app.deletingResults
       /\ app' = [app EXCEPT
                    !.deletingResults = {app.savedResults[i].id},
                    !.deletes = @ \cup {[kind |-> "single", pc |-> "sent",
                                         ids |-> {app.savedResults[i].id}]},
                    !.deleteCount = @ + 1]
  /\ UNCHANGED <<run, store, OPENAI_API_KEY, extract, themeProvider, user_preferences>>

\* the store runs a delete call: the rows with these ids go, or the call fails
DeleteQuery ==
  /\ \E d \in app.deletes :
       /\ d.pc = "sent"
       /\ \/ /\ store' = [i \in DOMAIN store |->
                            IF store[i].id \in d.ids THEN NoRow ELSE store[i]]
             /\ app' = [app EXCEPT !.deletes =
                          (@ \ {d}) \cup {[d EXCEPT !.pc = "ok"]}]
          \/ /\ UNCHANGED store
             /\ app' = [app EXCEPT !.deletes =
                          (@ \ {d}) \cup {[d EXCEPT !.pc = "err"]}]
  /\ UNCHANGED <<run, OPENAI_API_KEY, extract, themeProvider, user_preferences>>

\* the state after a delete call returned
Deleted(a, d) ==
  IF d.kind = "selected"
  THEN IF d.pc = "ok"
       THEN [a EXCEPT !.savedResults = WithoutIds(@, d.ids),
                      !.selectedResults = {},
                      !.isSelectionMode = FALSE,
                      !.successMessage = "results deleted successfully!",
                      !.deletingResults = {},
                      !.deletes = @ \ {d}]
       ELSE [a EXCEPT !.error = Err("Failed to delete selected results. Please try again.", 0, ""),
                      !.deletingResults = {},
                      !.deletes = @ \ {d}]
  ELSE IF d.pc = "ok"
       THEN [a EXCEPT !.savedResults = WithoutIds(@, d.ids),
                      !.selectedResults = @ \ d.ids,
                      !.successMessage = "Result deleted successfully!",
                      !.deletingResults = @ \ d.ids,
                      !.deletes = @ \ {d}]
       ELSE [a EXCEPT !.error = Err("Failed to delete result. Please try again.", 0, ""),
                      !.deletingResults = @ \ d.ids,
                      !.deletes = @ \ {d}]

\* a delete call returns
DeleteReturn ==
  /\ \E d \in app.deletes :
       /\ d.pc # "sent"
       /\ app' = Deleted(app, d)
  /\ UNCHANGED <<run, store, OPENAI_API_KEY, extract, themeProvider, user_preferences>>

\* the steps of a submission
Submission ==
  \/ (HandleSubmit /\ SavedScope')
  \/ (GetSessionReturn /\ SavedScope')
  \/ (ResponseReturn /\ SavedScope')
  \/ \E r \in Runs :
       \/ (ReceiveApp(r) /\ SavedScope')
       \/ (GetUserReturn(r) /\ SavedScope')
       \/ (JsonReturn(r) /\ SavedScope')
       \/ (FetchReturn(r) /\ SavedScope')
       \/ (TextReturn(r) /\ SavedScope')
       \/ (OpenAIReturn(r) /\ SavedScope')
       \/ (InsertReturn(r) /\ SavedScope')

NextSaved ==
  \/ Submission
  \/ ToggleSavedResults
  \/ LoadQuery
  \/ LoadReturn
  \/ EnterSelectionMode
  \/ ViewSavedResult
  \/ ToggleSelectAll
  \/ ExitSelectionMode
  \/ DeleteSelectedResults
  \/ DeleteIndividualResult
  \/ DeleteQuery
  \/ DeleteReturn

SpecSaved == InitSaved /\ [][NextSaved]_vars

(***************************************************************************)
(* The client: ThemeProvider, its preference load and toggleTheme          *)
(***************************************************************************)
\* the numbers of times the user prop changes to a signed-in user's object,
\* and of clicks on the theme toggle
NumUserChanges == 2
NumToggles == 2

\* theme === 'light' ? 'dark' : 'light'
OtherTheme(theme) == IF theme = "light" THEN "dark" ELSE "light"

\* the provider once AuthWrapper has rendered it without a user and its
\* effect has run: the system's theme is shown, isLoading is false
MountedTheme(systemTheme) ==
  [InitialTheme EXCEPT !.theme = systemTheme, !.systemTheme = systemTheme,
                       !.isLoading = FALSE]

InitTheme ==
  /\ run = [r \in Runs |-> IdleRun]
  /\ store = <<>>
  /\ OPENAI_API_KEY = FALSE
  /\ extract = NoExtract
  /\ app = InitialApp
  /\ themeProvider \in {MountedTheme(systemTheme) : systemTheme \in Themes}
  /\ user_preferences \in {NoTheme} \cup Themes

\* a call of loadThemePreference whose select is on its way
SelectSent == [pc |-> "select", data |-> NoTheme]

\* AuthWrapper sets the user (the session is read, the user signs in, the
\* auth state changes): the effect runs loadThemePreference for the user
UserChanges ==
  /\ themeProvider.userChanges < NumUserChanges
  /\ themeProvider' = [themeProvider EXCEPT
                         !.user = "userA",
                         !.loads = @ \cup {SelectSent},
                         !.userChanges = @ + 1]
  /\ UNCHANGED <<run, store, OPENAI_API_KEY, extract, app, user_preferences>>

\* the store runs the select of a load: it answers with the user's row, or
\* with an error and no data, or the call throws
ThemeSelectQuery ==
  /\ SelectSent \in themeProvider.loads
  /\ \/ themeProvider' = [themeProvider EXCEPT !.loads =
            (@ \ {SelectSent}) \cup {[pc |-> "selected",
                                      data |-> user_preferences]}]
     \/ themeProvider' = [themeProvider EXCEPT
            !.failed = TRUE,
            !.loads = (@ \ {SelectSent}) \cup {[pc |-> "selected",
                                                data |-> NoTheme]}]
     \/ themeProvider' = [themeProvider EXCEPT
            !.failed = TRUE,
            !.loads = (@ \ {SelectSent}) \cup {[pc |-> "threw",
                                                data |-> NoTheme]}]
  /\ UNCHANGED <<run, store, OPENAI_API_KEY, extract, app, user_preferences>>

\* the select of a load returns: the stored theme is shown; or, without
\* one, the system's theme is shown and upserted; or the catch block shows
\* the system's theme
ThemeSelectReturn ==
  /\ \E l \in themeProvider.loads :
       /\ l.pc \in {"selected", "threw"}
       /\ themeProvider' =
            IF l.pc = "threw"
            THEN [themeProvider EXCEPT !.theme = themeProvider.systemTheme,
                                       !.isLoading = FALSE,
                                       !.loads = @ \ {l}]
            ELSE IF l.data # NoTheme
            THEN [themeProvider EXCEPT !.theme = l.data,
                                       !.isLoading = FALSE,
                                       !.loads = @ \ {l}]
            ELSE [themeProvider EXCEPT
                    !.theme = themeProvider.systemTheme,
                    !.loads = (@ \ {l}) \cup
                              {[pc |-> "upsert",
                                data |-> themeProvider.systemTheme]}]
  /\ UNCHANGED <<run, store, OPENAI_API_KEY, extract, app, user_preferences>>

\* the store runs the upsert of a load, or fails it
ThemeUpsertQuery ==
  /\ \E l \in themeProvider.loads :
       /\ l.pc = "upsert"
       /\ \/ /\ user_preferences' = l.data
             /\ themeProvider' = [themeProvider EXCEPT !.loads =
                   (@ \ {l}) \cup {[l EXCEPT !.pc = "upserted"]}]
          \/ /\ UNCHANGED user_preferences
             /\ themeProvider' = [themeProvider EXCEPT
                   !.failed = TRUE,
                   !.loads = (@ \ {l}) \cup {[l EXCEPT !.pc = "upserted"]}]
  /\ UNCHANGED <<run, store, OPENAI_API_KEY, extract, app>>

\* the upsert of a load returns: the finally block
ThemeUpsertReturn ==
  /\ \E l \in themeProvider.loads :
       /\ l.pc = "upserted"
       /\ themeProvider' = [themeProvider EXCEPT !.isLoading = FALSE,
                                                 !.loads = @ \ {l}]
  /\ UNCHANGED <<run, store, OPENAI_API_KEY, extract, app, user_preferences>>

\* toggleTheme up to its upsert: the other theme is shown and, for a user,
\* upserted
Toggled(tp) ==
  [tp EXCEPT !.theme = OtherTheme(tp.theme),
             !.upserts = IF tp.user # NoUser
                         THEN @ \cup {[pc |-> "sent",
                                       theme |-> OtherTheme(tp.theme)]}
                         ELSE @,
             !.toggles = @ + 1]

\* a click on the ThemeToggle button, which is rendered unless isLoading
ToggleTheme ==
  /\ ~themeProvider.isLoading
  /\ themeProvider.toggles < NumToggles
  /\ themeProvider' = Toggled(themeProvider)
  /\ UNCHANGED <<run, store, OPENAI_API_KEY, extract, app, user_preferences>>

\* the store runs the upsert of a toggle, or fails it
ToggleUpsertQuery ==
  /\ \E u \in themeProvider.upserts :
       /\ u.pc = "sent"
       /\ \/ /\ user_preferences' = u.theme
             /\ themeProvider' = [themeProvider EXCEPT !.upserts =
                   (@ \ {u}) \cup {[u EXCEPT !.pc = "done"]}]
          \/ /\ UNCHANGED user_preferences
             /\ themeProvider' = [themeProvider EXCEPT
                   !.failed = TRUE,
                   !.upserts = (@ \ {u}) \cup {[u EXCEPT !.pc = "done"]}]
  /\ UNCHANGED <<run, store, OPENAI_API_KEY, extract, app>>

\* the upsert of a toggle returns
ToggleUpsertReturn ==
  /\ \E u \in themeProvider.upserts :
       /\ u.pc = "done"
       /\ themeProvider' = [themeProvider EXCEPT !.upserts = @ \ {u}]
  /\ UNCHANGED <<run, store, OPENAI_API_KEY, extract, app, user_preferences>>

NextTheme ==
  \/ UserChanges
  \/ ThemeSelectQuery
  \/ ThemeSelectReturn
  \/ ThemeUpsertQuery
  \/ ThemeUpsertReturn
  \/ ToggleTheme
  \/ ToggleUpsertQuery
  \/ ToggleUpsertReturn

SpecTheme == InitTheme /\ [][NextTheme]_vars

(***************************************************************************)
(* parseHtml applied on its own to documents drawn from families           *)
(***************************************************************************)
Str_Foo      == <<"F","o","o">>
Str_closeTitle == <<"<","/","t","i","t","l","e",">">>
Str_h1A      == <<"<","h","1",">","A","<","/","h","1",">">>
Str_anchor   == <<"<","a"," ","h","r","e","f","=","\"">>
Str_anchorMid == <<"\"",">">>
Str_anchorX  == <<"<","a"," ","h","r","e","f","=","\"","/","x","\"",">","G","<","/","a",">">>
Str_scenario == <<"<","h","t","m","l",">","<","b","o","d","y",">","<","h","1",">","A","<","/","h","1",">","<","a"," ","h","r","e","f","=","\"","/","x","\"",">","G","o","<","/","a",">","<","/","b","o","d","y",">","<","/","h","t","m","l",">">>
Str_siteTest == <<"s","i","t","e",".","t","e","s","t">>
Str_page     == <<"/","p","a","g","e">>
\* three anchors that are dropped: a javascript: one, a mailto: one and one
\* whose href does not resolve
Str_dropped  == <<"<","a"," ","h","r","e","f","=","\"","j","a","v","a","s","c","r","i","p","t",":","1","\"",">","J","<","/","a",">","<","a"," ","h","r","e","f","=","\"","m","a","i","l","t","o",":","a","\"",">","M","<","/","a",">","<","a"," ","h","r","e","f","=","\"","h","t","t","p",":","\"",">","U","<","/","a",">">>
\* two headings whose text is blank
Str_blankHeads == <<"<","h","1",">"," ","<","/","h","1",">","<","h","2",">"," "," ","<","/","h","2",">">>
\* two headings with text, the second with blanks around it
Str_heads    == <<"<","h","1",">","A","<","/","h","1",">","<","H","2",">"," ","B"," ","<","/","H","2",">">>
\* two anchors that are kept: one to /x, and one to /y without text
Str_mixed    == <<"<","a"," ","h","r","e","f","=","\"","/","x","\"",">","G","<","/","a",">","<","a"," ","h","r","e","f","=","\"","/","y","\"",">","<","/","a",">">>

\* what precedes the title element, its start tag, its text, and what follows
TitlePres   == {<<>>, <<"<","h","t","m","l",">">>, <<"<","t","i","t","l","e",">","<","/","t","i","t","l","e",">">>}
TitleOpens  == {<<"<","t","i","t","l","e",">">>, <<"<","T","I","T","L","E",">">>,
                <<"<","t","i","t","l","e"," ","i","d","=","\"","t","\"",">">>}
TitleInners == {Str_Foo, <<" ","F","o","o"," ">>, <<"a"," ","b">>, <<" ">>}
TitlePosts  == {<<>>, Str_h1A, <<"<","t","i","t","l","e",">","B","a","r","<","/","t","i","t","l","e",">">>}

\* documents in which no title element with text occurs
UntitledDocs ==
  {<<>>, Str_h1A,
   <<"<","t","i","t","l","e",">","<","/","t","i","t","l","e",">">>,
   <<"<","t","i","t","l","e",">","<","b",">","x","<","/","b",">","<","/","t","i","t","l","e",">">>,
   <<"<","t","i","t","l",">","F","o","o","<","/","t","i","t","l",">">>,
   <<"<","t","i","t","l","e",">","F","o","o">>}

\* the spellings of the href of an anchor
Hrefs ==
  {<<"/","x">>,
   <<"/","/","o",".","t","/","z">>,
   <<"x">>,
   <<".","/","x">>,
   <<".",".","/","x">>,
   <<"?","q">>,
   <<"#","f">>,
   <<"h","t","t","p","s",":","/","/","o",".","t","/","y">>,
   <<"H","T","T","P","S",":","/","/","O",".","T","/","y">>,
   <<"j","a","v","a","s","c","r","i","p","t",":","1">>,
   <<"J","A","V","A","S","C","R","I","P","T",":","1">>,
   <<"m","a","i","l","t","o",":","a">>,
   <<"M","A","I","L","T","O",":","a">>,
   <<"M","a","i","l","t","o",":","/","/","a">>,
   <<"J","a","v","a","S","c","r","i","p","t",":","/","/","x">>,
   <<"h","t","t","p",":","/","/">>,
   <<"a"," ","b",":","/","/","c">>}

\* the text of an anchor
LinkTexts == {<<"G","o">>, <<" ","G","o"," ">>, <<>>}
LinkPres  == {<<>>, Str_h1A}

\* the base URLs: scheme, host and path of the page the document came from
BaseSchemes == {Str_https, Str_http}
BaseHosts   == {Str_siteTest, <<"S",".","t">>}
BasePaths   == {Str_page, <<"/","a","/","b">>}

\* the numbers of repetitions in the long documents: more headings than
\* MaxHeadings, more links than MaxLinks, more characters than ContentLimit,
\* and more characters than maxContentLength
DocHeadings == 21
DocLinks    == 51
DocChars    == 15001
DocPromptChars == 12001
DocMixed    == 26
DocHeads    == 11

\* n copies of unit
Repeat(unit, n) ==
  [i \in 1..(n * Len(unit)) |-> unit[((i - 1) % Len(unit)) + 1]]

\* the long documents: what is repeated, how many times, and after what
LongUnits == {"headings", "links", "chars", "mixed", "heads"}
UnitOf(kind) ==
  CASE kind = "headings" -> Str_h1A
    [] kind = "links" -> Str_anchorX
    [] kind = "mixed" -> Str_mixed
    [] kind = "heads" -> Str_heads
    [] OTHER -> <<"a">>
PreOf(kind) ==
  CASE kind = "mixed" -> Str_dropped
    [] kind = "heads" -> Str_blankHeads
    [] OTHER -> <<>>
CountsOf(kind) ==
  CASE kind = "headings" -> {MaxHeadings, DocHeadings}
    [] kind = "links" -> {MaxLinks, DocLinks}
    [] kind = "mixed" -> {1, DocMixed}
    [] kind = "heads" -> {1, DocHeads}
    [] OTHER -> {maxContentLength, DocPromptChars, ContentLimit, DocChars}

\* the arguments of a call: the document is built from the parts of its
\* family, the base URL from its scheme, host and path
ExtractCall(family, pre, open, inner, post, count, scheme, host, path, html) ==
  [family |-> family, pre |-> pre, open |-> open, inner |-> inner,
   post |-> post, count |-> count, scheme |-> scheme, host |-> host,
   path |-> path, html |-> html, baseUrl |-> scheme \o Str_css \o host \o path,
   pc |-> "call", scrapedData |-> NoScraped, prompt |-> NoPrompt]

TitleCalls ==
  {ExtractCall("title", pre, open, inner, post, 0, Str_https, Str_siteTest,
               Str_page, pre \o open \o inner \o Str_closeTitle \o post) :
     pre \in TitlePres, open \in TitleOpens, inner \in TitleInners,
     post \in TitlePosts}

UntitledCalls ==
  {ExtractCall("untitled", <<>>, <<>>, <<>>, <<>>, 0, Str_https, Str_siteTest,
               Str_page, html) : html \in UntitledDocs}

LinkCalls ==
  {ExtractCall("link", pre, href, text, <<>>, 0, scheme, host, path,
               pre \o Str_anchor \o href \o Str_anchorMid \o text \o Str_aEnd) :
     pre \in LinkPres, href \in Hrefs, text \in LinkTexts,
     scheme \in BaseSchemes, host \in BaseHosts, path \in BasePaths}

ScenarioCalls ==
  {ExtractCall("scenario", <<>>, <<>>, <<>>, <<>>, 0, Str_https, Str_siteTest,
               Str_page, Str_scenario)}

LongCalls ==
  UNION {{ExtractCall(kind, PreOf(kind), <<>>, <<>>, <<>>, n, Str_https,
                      Str_siteTest, Str_page,
                      PreOf(kind) \o Repeat(UnitOf(kind), n)) :
            n \in CountsOf(kind)} : kind \in LongUnits}

InitExtract ==
  /\ run = [r \in Runs |-> IdleRun]
  /\ store = <<>>
  /\ OPENAI_API_KEY = FALSE
  /\ extract \in TitleCalls \cup UntitledCalls \cup LinkCalls
                 \cup ScenarioCalls \cup LongCalls
  /\ app = InitialApp
  /\ themeProvider = InitialTheme
  /\ user_preferences = NoTheme

\* parseHtml returns
ParseHtmlReturn ==
  /\ extract.pc = "call"
  /\ extract' = [extract EXCEPT
                   !.pc = "done",
                   !.scrapedData = parseHtml(extract.html, extract.baseUrl)]
  /\ UNCHANGED <<run, store, OPENAI_API_KEY, app, themeProvider, user_preferences>>

\* generateAISummary is called with the content and the title parseHtml
\* returned, and builds its prompt
GenerateAISummaryCall ==
  /\ extract.pc = "done"
  /\ Trim(extract.scrapedData.content) # <<>>
  /\ extract' = [extract EXCEPT
                   !.pc = "openai",
                   !.prompt = [sent |-> TRUE,
                               title |-> extract.scrapedData.title,
                               content |-> TruncatedContent(
                                             extract.scrapedData.content)]]
  /\ UNCHANGED <<run, store, OPENAI_API_KEY, app, themeProvider, user_preferences>>

NextExtract ==
  \/ ParseHtmlReturn
  \/ GenerateAISummaryCall

SpecExtract == InitExtract /\ [][NextExtract]_vars

(***************************************************************************)
(* Properties of the pipeline                                              *)
(***************************************************************************)
\* does the run's record of calls hold this entry
Has(r, what) == \E i \in DOMAIN run[r].calls : run[r].calls[i] = what

\* the positions of an entry in the run's record of calls
At(r, what) == {i \in DOMAIN run[r].calls : run[r].calls[i] = what}

\* every position of a comes before every position of b
Before(r, a, b) == \A i \in At(r, a), j \in At(r, b) : i < j

Done(r) == run[r].pc = "done"

\* the row a run wrote is in the store under its id, unchanged
RowOf(r) == store[run[r].inserted.id]

\* the run's locals and the row agree on every column the handler sets
RowIsComplete(r, row) ==
  /\ row.user_id = run[r].user
  /\ row.url = run[r].targetUrl
  /\ row.title = run[r].scrapedData.title
  /\ row.content = run[r].scrapedData.content
  /\ row.headings = run[r].scrapedData.headings
  /\ row.links = run[r].scrapedData.links
  /\ row.analysis_status = run[r].analysisStatus
  /\ row.ai_summary.isNull = (run[r].aiSummary = <<>>)
  /\ row.ai_summary.value = run[r].aiSummary

\* the store holds one row for each insert that succeeded, and no other
OnlyInsertsWrite ==
  Len(store) = Cardinality({q \in Runs : Has(q, "insert.ok")})

\* C1: in every run the steps occur in the order fetch, extract, enrich,
\* persist: the insert is sent only after the fetch and the reading of the
\* document succeeded and after the enrichment call, if one was made, has
\* ended with status completed or failed; nothing is fetched, enriched or
\* written after the insert was sent; the row is written once, whole, and is
\* not changed afterwards.
C1_Order ==
  /\ \A r \in Runs :
       /\ Cardinality(At(r, "fetch")) <= 1
       /\ Cardinality(At(r, "openai")) <= 1
       /\ Cardinality(At(r, "insert")) <= 1
       /\ Has(r, "insert") =>
            /\ Has(r, "fetch.ok") /\ Has(r, "text.ok")
            /\ Before(r, "fetch", "fetch.ok")
            /\ Before(r, "fetch.ok", "text.ok")
            /\ Before(r, "text.ok", "insert")
            /\ run[r].scrapedData = parseHtml(run[r].html, run[r].targetUrl)
            /\ Has(r, "openai") =>
                 /\ Before(r, "text.ok", "openai")
                 /\ Has(r, "openai.ok") \/ Has(r, "openai.err")
                 /\ Before(r, "openai.ok", "insert")
                 /\ Before(r, "openai.err", "insert")
                 /\ run[r].analysisStatus \in {"completed", "failed"}
            /\ \A i \in DOMAIN run[r].calls :
                 i > MinOf(At(r, "insert"))
                   => run[r].calls[i] \in {"insert.ok", "insert.err"}
       /\ Has(r, "insert.ok") =>
            /\ run[r].inserted.id \in DOMAIN store
            /\ RowOf(r) = run[r].inserted
            /\ RowIsComplete(r, RowOf(r))
  /\ Len(store) = Cardinality({r \in Runs : Has(r, "insert.ok")})
  /\ \A i \in DOMAIN store :
       \E r \in Runs : Has(r, "insert.ok") /\ run[r].inserted.id = i

\* a run went through the whole pipeline, enrichment included
C1_Witness ==
  \E r \in Runs : Has(r, "openai.ok") /\ Has(r, "insert.ok") /\ Done(r)

\* C2, as claimed: if the enrichment call is made and errors, the run
\* persists the record with status failed and no summary and the response is
\* success: true.
C2_Original ==
  \A r \in Runs :
    Done(r) /\ Has(r, "openai.err") =>
      /\ Has(r, "insert.ok")
      /\ RowOf(r).analysis_status = "failed"
      /\ RowOf(r).ai_summary.isNull
      /\ run[r].response.success

\* C2, amended: if the enrichment call is made and errors (transport error,
\* non-success response, or unusable reply), the run still sends the record
\* to the store with status failed and no summary; unless that write itself
\* fails, the record is persisted so and the response is success: true; the
\* only error the response can then carry is the store's.
C2_EnrichmentErrorAbsorbed ==
  \A r \in Runs :
    Has(r, "openai.err") =>
      /\ run[r].reply.kind \in {"throw", "status", "badjson", "json"}
      /\ run[r].analysisStatus = "failed"
      /\ run[r].aiSummary = <<>>
      /\ Has(r, "insert")
      /\ Has(r, "insert.ok") =>
           /\ RowOf(r).analysis_status = "failed"
           /\ RowOf(r).ai_summary = JsNull
           /\ run[r].response.success
           /\ run[r].response.data.analysisStatus = "failed"
           /\ run[r].response.data.aiSummary = JsNull
      /\ Done(r) /\ ~run[r].response.success =>
           /\ Has(r, "insert.err")
           /\ run[r].response.error.msg = "Database error: "

\* the enrichment errored and the record was persisted and returned
C2_Witness ==
  \E r \in Runs :
    /\ Done(r) /\ Has(r, "openai.err") /\ Has(r, "insert.ok")
    /\ run[r].reply = BadJsonReply
    /\ run[r].response.success

\* C3, as claimed: with no credential configured, every run whose fetch
\* succeeds persists a record with status pending and no summary, makes no
\* enrichment call, and returns success.
C3_Original ==
  ~OPENAI_API_KEY =>
    \A r \in Runs :
      Done(r) /\ Has(r, "text.ok") =>
        /\ ~Has(r, "openai")
        /\ Has(r, "insert.ok")
        /\ RowOf(r).analysis_status = "pending"
        /\ RowOf(r).ai_summary.isNull
        /\ run[r].response.success

\* C3, amended: with no credential configured, every run whose fetch
\* succeeds makes no enrichment call and sends the store a record with status
\* pending and no summary; unless that write itself fails, the record is
\* persisted so and the run returns success.
C3_NoCredentialPending ==
  ~OPENAI_API_KEY =>
    \A r \in Runs :
      Has(r, "text.ok") =>
        /\ ~Has(r, "openai") /\ ~run[r].prompt.sent
        /\ run[r].analysisStatus = "pending"
        /\ run[r].aiSummary = <<>>
        /\ Has(r, "insert")
        /\ Has(r, "insert.ok") =>
             /\ RowOf(r).analysis_status = "pending"
             /\ RowOf(r).ai_summary = JsNull
             /\ run[r].response.success
             /\ run[r].response.data.analysisStatus = "pending"
        /\ Done(r) /\ ~run[r].response.success => Has(r, "insert.err")

\* no credential, a document with text, and the record persisted as pending
C3_Witness ==
  /\ ~OPENAI_API_KEY
  /\ \E r \in Runs :
       /\ Done(r) /\ Has(r, "insert.ok") /\ run[r].response.success
       /\ Trim(run[r].scrapedData.content) # <<>>

\* the statuses 200..299
Is2xx(n) == n \in 200..299

\* C4: if the fetch of the target returns a non-2xx status N, the run ends
\* with a fetch error that surfaces N, no enrichment call is made and no
\* record is persisted.
C4_FetchStatusError ==
  \A r \in Runs :
    Has(r, "fetch.ok") /\ ~Is2xx(run[r].fetchStatus) =>
      /\ Done(r)
      /\ run[r].response.kind = "failure"
      /\ ~run[r].response.success
      /\ run[r].response.error =
           Err("Failed to fetch webpage: ", run[r].fetchStatus, "")
      /\ ~Has(r, "text.ok") /\ ~Has(r, "openai") /\ ~Has(r, "insert")
      /\ ~Has(r, "insert.ok") /\ run[r].inserted = NoRow
      /\ OnlyInsertsWrite

\* the target answered 304 or 404 and the run ended
C4_Witness ==
  /\ \E r \in Runs : Done(r) /\ run[r].fetchStatus = 404
  /\ \E r \in Runs : Done(r) /\ run[r].fetchStatus \in {304, 404, 500}

\* the body's url is missing, empty, or has no scheme to make it absolute
MissingOrRelative(url) == ~Truthy(url) \/ ~HasScheme(Trim(url.value))

\* the messages of the handler's validation errors
ValidationMessages == {"URL is required", "Invalid URL format"}

\* C5: if the submitted URL is missing or does not parse as an absolute URL,
\* the run returns a validation error at once, with no network call for it:
\* the target is not fetched, the enrichment service is not called and
\* nothing is written to the store. (The run is one that read the body, so
\* one whose identity was accepted; a body that is no JSON has no url, and
\* its error is the parser's.)
C5_ValidationError ==
  \A r \in Runs :
    Has(r, "getUser.ok") /\ run[r].pc # "json" /\ MissingOrRelative(run[r].url)
      => /\ Done(r)
         /\ run[r].response.kind = "failure"
         /\ ~run[r].response.success
         /\ run[r].response.error.msg \in
              ValidationMessages \cup {"Unexpected end of JSON input"}
         /\ run[r].url # JsNull => run[r].response.error.msg \in ValidationMessages
         /\ run[r].calls = <<"getUser", "getUser.ok">>
         /\ run[r].targetUrl = <<>>
         /\ ~run[r].prompt.sent
         /\ run[r].inserted = NoRow
         /\ OnlyInsertsWrite

\* a url without a scheme was submitted and refused
C5_Witness ==
  \E r \in Runs :
    /\ Done(r) /\ run[r].url = Js(Url_bare)
    /\ run[r].response.error.msg = "Invalid URL format"

\* the request has no bearer token, or the identity check rejected it
Unauthenticated(r) ==
  /\ run[r].method = "POST"
  /\ run[r].pc # "idle"
  /\ run[r].authHeader = NoHeader \/ Has(r, "getUser.err")

\* the messages of the handler's authentication errors
AuthMessages == {"No authorization header", "Invalid authentication"}

\* C6: a request with a missing bearer token, or whose token the identity
\* check rejects, is refused before any pipeline step: the body's url is not
\* fetched, no enrichment call is made and no record is written.
C6_AuthRefused ==
  \A r \in Runs :
    Unauthenticated(r) =>
      /\ Done(r)
      /\ run[r].response.kind = "failure"
      /\ run[r].response.error.msg \in AuthMessages
      /\ run[r].url = JsNull
      /\ ~Has(r, "fetch") /\ ~Has(r, "openai") /\ ~Has(r, "insert")
      /\ run[r].targetUrl = <<>> /\ ~run[r].prompt.sent
      /\ run[r].inserted = NoRow
      /\ OnlyInsertsWrite

\* a token the identity check rejects, and a request without a token
C6_Witness ==
  /\ \E r \in Runs : Done(r) /\ Has(r, "getUser.err")
  /\ \E r \in Runs : Done(r) /\ Has(r, "getUser.err")
                       /\ run[r].authHeader = "Bearer expired"

\* C7: in every persisted record the summary is present and non-empty
\* exactly when the status is completed; with status pending or failed the
\* summary is null.
C7_SummaryIffCompleted ==
  \A i \in DOMAIN store :
    /\ store[i].analysis_status = "completed" <=>
         (~store[i].ai_summary.isNull /\ store[i].ai_summary.value # <<>>)
    /\ store[i].analysis_status \in {"pending", "failed"} =>
         store[i].ai_summary = JsNull

\* a completed record whose reply held no text, and a failed record
C7_Witness ==
  /\ \E i \in DOMAIN store :
       /\ store[i].analysis_status = "completed"
       /\ store[i].ai_summary = Js(Str_sentinel)
  /\ \E r \in Runs : Has(r, "insert.ok") /\ run[r].reply.content = Js(<<>>)

\* the status of a run is always one of the four values, once it is declared
C8_StatusInSet ==
  /\ \A r \in Runs : run[r].analysisStatus \in AnalysisStatuses \cup {""}
  /\ \A r \in Runs : Has(r, "text.ok") => run[r].analysisStatus \in AnalysisStatuses
  /\ \A i \in DOMAIN store : store[i].analysis_status \in AnalysisStatuses

\* a step changes the status of a run only by declaring it as pending, or
\* from pending to completed or failed, and that before the insert is sent
C8_StatusStep ==
  \A r \in Runs :
    run'[r].analysisStatus # run[r].analysisStatus =>
      \/ run[r].analysisStatus = "" /\ run'[r].analysisStatus = "pending"
      \/ /\ run[r].analysisStatus = "pending"
         /\ run'[r].analysisStatus \in {"completed", "failed"}
         /\ ~Has(r, "insert")

\* C8: the status written by any run is always one of pending, processing,
\* completed, failed; it starts as pending and changes at most once, to
\* completed or to failed, before the write.
C8_StatusMachine == []C8_StatusInSet /\ [][C8_StatusStep]_vars

\* a run wrote the status failed, after it had changed from pending
C8_Witness ==
  \E r \in Runs : Has(r, "insert.ok") /\ RowOf(r).analysis_status = "failed"

\* the reply is a readable one whose text is absent, empty or white space
EmptyReply(reply) ==
  /\ reply.kind = "json"
  /\ reply.choices \in {"empty", "first"}
  /\ reply.content.isNull
       \/ \A i \in DOMAIN reply.content.value : IsSpace(reply.content.value[i])

\* the call errored: no response, a non-success response, or a body that
\* cannot be read as a completion
CallError(reply) ==
  \/ reply.kind \in {"throw", "badjson"}
  \/ reply.kind = "status" /\ ~Is2xx(reply.status)
  \/ reply.kind = "json" /\ reply.choices = "missing"

\* C9: if the enrichment call succeeds but the returned text is empty or
\* white space only, the status is completed (not failed) and the summary is
\* the sentinel 'Summary could not be generated.'; status failed results
\* only from an outright call error.
C9_SoftFailure ==
  \A r \in Runs :
    /\ run[r].reply.kind # "none" /\ EmptyReply(run[r].reply) =>
         /\ run[r].analysisStatus = "completed"
         /\ run[r].aiSummary = Str_sentinel
         /\ Has(r, "insert.ok") => RowOf(r).ai_summary = Js(Str_sentinel)
    /\ run[r].analysisStatus = "failed" =>
         run[r].reply.kind # "none" /\ CallError(run[r].reply)

\* a reply of white space only was persisted as completed
C9_Witness ==
  \E r \in Runs :
    /\ run[r].reply = JsonReply("first", Js(<<" ", "\n">>))
    /\ Has(r, "insert.ok")
    /\ RowOf(r).analysis_status = "completed"

\* C10, as claimed: failure responses carry a status code that depends on
\* the error class: 401 for a missing or invalid identity, 400 for a missing
\* or malformed URL, 500 for a store failure.
C10_StatusByClass ==
  \A r \in Runs :
    Done(r) /\ run[r].response.kind = "failure" =>
      /\ run[r].response.error.msg \in AuthMessages
           => run[r].response.status = 401
      /\ run[r].response.error.msg \in ValidationMessages
           => run[r].response.status = 400
      /\ run[r].response.error.msg = "Database error: "
           => run[r].response.status = 500

\* the data of a response is the projection of this row
IsProjectionOf(data, row) ==
  /\ data.id = row.id
  /\ data.url = row.url
  /\ data.title = row.title
  /\ data.content = row.content
  /\ data.headings = row.headings
  /\ data.links = row.links
  /\ data.aiSummary = row.ai_summary
  /\ data.analysisStatus = row.analysis_status
  /\ data.timestamp = row.created_at

\* C11: a response with success: true is given only by a run whose insert
\* succeeded, and its data is the projection of the row that insert left in
\* the store; a run whose insert failed answers success: false with a status
\* outside 200..299 and no data; and a run that answers with a failure has
\* written no row.
C11_SuccessIffPersisted ==
  /\ OnlyInsertsWrite
  /\ \A r \in Runs :
       Done(r) =>
         /\ run[r].response.success =>
              /\ Has(r, "insert.ok")
              /\ run[r].inserted.id \in DOMAIN store
              /\ RowOf(r) = run[r].inserted
              /\ IsProjectionOf(run[r].response.data, RowOf(r))
         /\ Has(r, "insert.err") =>
              /\ ~run[r].response.success
              /\ ~Is2xx(run[r].response.status)
              /\ run[r].response.data = NoData
         /\ run[r].response.kind = "failure" =>
              /\ ~run[r].response.success
              /\ ~Has(r, "insert.ok")
              /\ run[r].inserted = NoRow

\* a run answered success: true with the projection of its stored row
C11_Witness ==
  \E r \in Runs :
    /\ Done(r)
    /\ run[r].response.success
    /\ Has(r, "insert.ok")
    /\ run[r].response.data.id = Len(store)
    /\ run[r].response.data.links # <<>>

\* C12: the error string of the response to a failed store write does not
\* depend on the store's error text: it is the string the run would have
\* answered with any other error text of the store.
C12_GenericMessage ==
  \A r \in Runs :
    Done(r) /\ Has(r, "insert.err") =>
      \A msg \in DbErrors :
        run[r].response.error =
          ErrorResponse(Err("Database error: ", 0, msg)).error

\* parseHtml has returned
Extracted == extract.pc \in {"done", "openai"}

\* C14: for every document, parseHtml returns at most 20 headings, at most
\* 50 links and a content of at most 15000 characters.
C14_Caps ==
  Extracted =>
    /\ Len(extract.scrapedData.headings) <= 20
    /\ Len(extract.scrapedData.links) <= 50
    /\ Len(extract.scrapedData.content) <= 15000

\* a document with more than 50 anchors yielded exactly 50 links
C14_Witness ==
  /\ Extracted
  /\ extract.family = "links"
  /\ extract.count > 50
  /\ Len(extract.scrapedData.links) = 50

\* the schemes the link filter is to keep out
Str_schemeJavascript == <<"j","a","v","a","s","c","r","i","p","t",":">>
Str_schemeMailto     == <<"m","a","i","l","t","o",":">>

\* C15: for every extracted link, whatever the spelling of its href, the
\* url is an absolute URL and its scheme is neither javascript: nor mailto:.
C15_AbsoluteSafeLinks ==
  Extracted =>
    \A i \in DOMAIN extract.scrapedData.links :
      /\ NewURL(extract.scrapedData.links[i].url).ok
      /\ NewURL(extract.scrapedData.links[i].url).protocol
           \notin {Str_schemeJavascript, Str_schemeMailto}

\* C16: the title is the trimmed text of the first title element that has
\* text, and it is 'Untitled' exactly when the document has no title
\* element with text; <title>Foo</title> yields 'Foo'.
C16_Title ==
  Extracted =>
    /\ extract.family = "title" => extract.scrapedData.title = Trim(extract.inner)
    /\ extract.family = "title" /\ extract.inner = Str_Foo =>
         extract.scrapedData.title = Str_Foo
    /\ extract.scrapedData.title = Str_Untitled <=> extract.family # "title"

\* a title with spaces around it, after an empty title element, came out
\* trimmed
C16_Witness ==
  /\ Extracted
  /\ extract.family = "title"
  /\ extract.pre # <<>>
  /\ Len(extract.inner) > Len(Str_Foo)
  /\ extract.scrapedData.title = Str_Foo

Str_A        == <<"A">>
Str_Go       == <<"G","o">>
Str_siteTestX == <<"h","t","t","p","s",":","/","/","s","i","t","e",".","t","e","s","t","/","x">>

\* C17: a link whose href begins with '/' gets the url of the base URL's
\* scheme and host followed by the href, and a link's text is the trimmed
\* inner text of its anchor; the document of the scenario, fetched from
\* https://site.test/page, yields headings [A] and links
\* [{Go, https://site.test/x}].
C17_RootedLink ==
  Extracted =>
    /\ extract.family = "scenario" =>
         /\ extract.scrapedData.headings = <<Str_A>>
         /\ extract.scrapedData.links =
              <<[text |-> Str_Go, url |-> Str_siteTestX]>>
    /\ extract.family = "link" =>
         /\ extract.open[1] = "/" =>
              /\ Len(extract.scrapedData.links) = 1
              /\ extract.scrapedData.links[1].url =
                   extract.scheme \o Str_css \o LowerStr(extract.host)
                     \o extract.open
         /\ \A i \in DOMAIN extract.scrapedData.links :
              Trim(extract.inner) # <<>> =>
                extract.scrapedData.links[i].text = Trim(extract.inner)

\* the scenario's document was parsed
C17_Witness ==
  /\ Extracted
  /\ extract.family = "scenario"
  /\ Len(extract.scrapedData.links) = 1

\* the external calls that are steps of the pipeline, with the entry that
\* records the failure of each
Steps == {"fetch", "openai", "insert"}
FailureOf(step) ==
  CASE step = "fetch" -> "fetch.err"
    [] step = "openai" -> "openai.err"
    [] OTHER -> "insert.err"

\* C19: no step is retried: within one run the target is requested at most
\* once, the enrichment service is called at most once and the store is
\* written at most once, and the failure of a step is never followed by
\* another attempt of that step.
C19_NoRetry ==
  \A r \in Runs : \A step \in Steps :
    /\ Cardinality(At(r, step)) <= 1
    /\ Cardinality(At(r, FailureOf(step))) <= 1
    /\ \A i \in At(r, FailureOf(step)), j \in At(r, step) : j < i

\* a run whose enrichment call and whose insert both failed has ended
C19_Witness ==
  \E r \in Runs :
    /\ Done(r)
    /\ Has(r, "openai.err")
    /\ Has(r, "insert.err")
    /\ Cardinality(At(r, "fetch")) = 1

\* the run has the result of parseHtml
Parsed(r) == Has(r, "text.ok")

\* C20: the enrichment service is called in a run if and only if the
\* credential is configured and the extracted content is not empty after
\* trimming; with an empty or white-space content no call is made and the
\* status stays pending, in the run and in the row it writes.
C20_EnrichIff ==
  \A r \in Runs :
    /\ Has(r, "openai") =>
         /\ Parsed(r)
         /\ run[r].prompt.sent
    /\ Parsed(r) =>
         /\ Has(r, "openai") <=>
              OPENAI_API_KEY /\ Trim(run[r].scrapedData.content) # <<>>
         /\ Trim(run[r].scrapedData.content) = <<>> =>
              /\ ~Has(r, "openai")
              /\ ~run[r].prompt.sent
              /\ run[r].analysisStatus = "pending"
              /\ Has(r, "insert.ok") =>
                   /\ RowOf(r).analysis_status = "pending"
                   /\ RowOf(r).ai_summary = JsNull

\* with the credential configured, a run whose content was white space
\* only stored a pending row
C20_Witness ==
  \E r \in Runs :
    /\ OPENAI_API_KEY
    /\ Has(r, "insert.ok")
    /\ run[r].scrapedData.content # <<>>
    /\ Trim(run[r].scrapedData.content) = <<>>
    /\ ~Has(r, "openai")

Str_httpsST      == <<"h","t","t","p","s",":","/","/","s",".","t">>
Str_httpsSTslash == <<"h","t","t","p","s",":","/","/","s",".","t","/">>

\* does the text begin with http:// or https://, in any letter case
HasHttpPrefix(s) ==
  \E p \in {Str_httpSlashes, Str_httpsSlashes} :
    Len(s) >= Len(p) /\ LowerStr(Sub(s, 1, Len(p))) = p

\* the URL the pipeline is to work on for the text the user typed
NormalFormOf(typed) ==
  IF HasHttpPrefix(Trim(typed)) THEN Trim(typed)
  ELSE Str_httpsSlashes \o Trim(typed)

C21_Truncation ==
  extract.prompt.sent =>
    LET content == extract.scrapedData.content
        sent    == extract.prompt.content
    IN  /\ Len(content) <= 12000 => sent = content
        /\ Len(content) > 12000 =>
              /\ Len(sent) = 12003
              /\ \A i \in 1..12000 : sent[i] = content[i]
              /\ \A i \in 12001..12003 : sent[i] = "."
        /\ Len(sent) > Len(content) => Len(content) > 12000

\* a content of more than 12000 characters was sent cut and marked
C21_Witness ==
  /\ extract.prompt.sent
  /\ Len(extract.scrapedData.content) > 12000
  /\ Len(extract.prompt.content) = 12003

\* the runs that wrote the row with this id
WritersOf(id) == {r \in Runs : Has(r, "insert.ok") /\ run[r].inserted.id = id}

\* C22: every row of the store was written by exactly one run, and its
\* user_id is the user the identity service returned for the bearer token of
\* that run's own request.
C22_OwnedByCaller ==
  \A id \in DOMAIN store :
    /\ Cardinality(WritersOf(id)) = 1
    /\ \A r \in WritersOf(id) :
         /\ Has(r, "getUser.ok")
         /\ store[id].user_id # NoUser
         /\ store[id].user_id = UserOf(TokenOf(run[r].authHeader))

\* two requests of different users ran concurrently, the later one wrote its
\* row first, and each row has its own request's user
C22_Witness ==
  /\ Len(store) = 2
  /\ WritersOf(1) = {2}
  /\ WritersOf(2) = {1}
  /\ store[1].user_id = "userB"
  /\ store[2].user_id = "userA"

\* what a run yields from its own request, the document it fetched and the
\* reply of the completion service to it, whatever else is served meanwhile
Alone(r) ==
  LET Of(scrapedData) ==
        LET enrich == OPENAI_API_KEY /\ Trim(scrapedData.content) # <<>>
            threw  == SummaryThrows(run[r].reply)
        IN  [user_id |-> UserOf(TokenOf(run[r].authHeader)),
             url |-> NewURL(run[r].url.value).href,
             title |-> scrapedData.title,
             content |-> scrapedData.content,
             headings |-> scrapedData.headings,
             links |-> scrapedData.links,
             ai_summary |-> IF enrich /\ ~threw
                            THEN Js(SummaryOf(run[r].reply)) ELSE JsNull,
             analysis_status |-> IF ~enrich THEN "pending"
                                 ELSE IF threw THEN "failed" ELSE "completed"]
  IN  Of(parseHtml(run[r].html, NewURL(run[r].url.value).href))

\* the columns of a row that the handler sets
ColumnsOf(row) ==
  [user_id |-> row.user_id, url |-> row.url, title |-> row.title,
   content |-> row.content, headings |-> row.headings, links |-> row.links,
   ai_summary |-> row.ai_summary, analysis_status |-> row.analysis_status]

\* C23: in every interleaving of the runs, the row a run wrote and the data
\* of its response (title, headings, links, content, summary, status, owner,
\* url) are those that follow from its own request, its own fetched document
\* and its own completion reply.
C23_Independent ==
  LET Agrees(r, alone) ==
        /\ run[r].inserted.id \in DOMAIN store
        /\ ColumnsOf(RowOf(r)) = alone
        /\ run[r].response.data.url = alone.url
        /\ run[r].response.data.title = alone.title
        /\ run[r].response.data.content = alone.content
        /\ run[r].response.data.headings = alone.headings
        /\ run[r].response.data.links = alone.links
        /\ run[r].response.data.aiSummary = alone.ai_summary
        /\ run[r].response.data.analysisStatus = alone.analysis_status
  IN  \A r \in Runs : Has(r, "insert.ok") => Agrees(r, Alone(r))

\* two runs overlapped, fetched different documents, got different replies,
\* and both wrote their rows, the later request first
C23_Witness ==
  /\ Len(store) = 2
  /\ WritersOf(1) = {2}
  /\ WritersOf(2) = {1}
  /\ run[1].html = Doc_page
  /\ run[2].html = Doc_nav
  /\ run[1].user # run[2].user
  /\ store[2].analysis_status = "completed"
  /\ store[1].analysis_status = "pending"
  /\ store[2].links # <<>>

\* C24: a run whose caller disconnected before the handler called the insert
\* writes no row.
C24_CancelAborts ==
  \A r \in Runs :
    (Has(r, "disconnect") /\ Before(r, "disconnect", "insert")) =>
      ~Has(r, "insert.ok")

\* the run has answered with the projection of a row it wrote, and with no
\* error
AnsweredRecord(r) ==
  /\ run[r].response.kind = "success"
  /\ run[r].response.success
  /\ run[r].response.error = NoError
  /\ run[r].inserted # NoRow
  /\ run[r].response.data.id = run[r].inserted.id

\* the run has answered with an error, and with no record
AnsweredError(r) ==
  /\ run[r].response.kind = "failure"
  /\ ~run[r].response.success
  /\ run[r].response.error # NoError
  /\ run[r].response.data = NoData
  /\ run[r].inserted = NoRow

\* the run is that of a POST request
Pipeline(r) == run[r].method = "POST"

\* C25: where every awaited call returns or fails, a run that has started
\* ends; a run that has ended has answered either with its persisted record
\* or with one error, never with both and never with neither; a run that has
\* not ended has not answered; and the answer of a run that has ended does
\* not change.
C25_OneResponse ==
  /\ \A r \in Runs : (run[r].pc \notin {"idle", "done"}) ~> Done(r)
  /\ [](\A r \in Runs :
         /\ (Done(r) /\ Pipeline(r)) =>
              /\ AnsweredRecord(r) \/ AnsweredError(r)
              /\ ~(AnsweredRecord(r) /\ AnsweredError(r))
         /\ ~Done(r) => run[r].response = NoResponse)
  /\ [][\A r \in Runs : Done(r) => run'[r] = run[r]]_vars

\* both runs have ended, one with its record and one with an error
C25_Witness ==
  /\ \A r \in Runs : Done(r) /\ Pipeline(r)
  /\ \E r \in Runs : AnsweredRecord(r)
  /\ \E r \in Runs : AnsweredError(r) /\ Has(r, "fetch.ok")

Str_G == <<"G">>
Str_siteTestY == <<"h","t","t","p","s",":","/","/","s","i","t","e",".","t","e","s","t","/","y">>

MinNat(a, b) == IF a <= b THEN a ELSE b

\* C26: the links are the first 50 of the anchors that are kept, in the order
\* of the document: anchors that are dropped (javascript:, mailto:, an href
\* that does not resolve) use up none of the 50 places, identical anchors
\* give one entry each, and every link has a text, which is its url where
\* the anchor's text is empty.
C26_FirstFiftyKept ==
  Extracted =>
    LET links == extract.scrapedData.links
    IN  /\ \A i \in DOMAIN links : links[i].text # <<>>
        /\ extract.family = "mixed" =>
              /\ Len(links) = MinNat(2 * extract.count, 50)
              /\ \A i \in DOMAIN links :
                   links[i] = IF i % 2 = 1
                              THEN [text |-> Str_G, url |-> Str_siteTestX]
                              ELSE [text |-> Str_siteTestY, url |-> Str_siteTestY]
        /\ extract.family = "links" =>
              /\ Len(links) = MinNat(extract.count, 50)
              /\ \A i \in DOMAIN links :
                   links[i] = [text |-> Str_G, url |-> Str_siteTestX]
        /\ (extract.family = "link" /\ Trim(extract.inner) = <<>>) =>
              \A i \in DOMAIN links : links[i].text = links[i].url

\* of 55 anchors, the first three of them dropped, the first 50 kept ones were
\* returned
C26_Witness ==
  /\ Extracted
  /\ extract.family = "mixed"
  /\ extract.count > 25
  /\ Len(extract.scrapedData.links) = 50
  /\ extract.scrapedData.links[50].url = Str_siteTestY

Str_B == <<"B">>

\* C27: the headings are the first 20 of the heading texts that are not empty
\* once trimmed, in the order of the document and trimmed: a heading whose
\* text is blank uses up none of the 20 places, and no listed heading is
\* empty.
C27_FirstTwentyNonEmpty ==
  Extracted =>
    LET headings == extract.scrapedData.headings
    IN  /\ \A i \in DOMAIN headings :
              headings[i] # <<>> /\ Trim(headings[i]) = headings[i]
        /\ extract.family = "heads" =>
              /\ Len(headings) = MinNat(2 * extract.count, 20)
              /\ \A i \in DOMAIN headings :
                   headings[i] = IF i % 2 = 1 THEN Str_A ELSE Str_B
        /\ extract.family = "headings" =>
              /\ Len(headings) = MinNat(extract.count, 20)
              /\ \A i \in DOMAIN headings : headings[i] = Str_A

\* of 24 headings, the first two of them blank, the first 20 with text were
\* returned
C27_Witness ==
  /\ Extracted
  /\ extract.family = "heads"
  /\ extract.count > 10
  /\ Len(extract.scrapedData.headings) = 20
  /\ extract.scrapedData.headings[20] = Str_B

\* C28: no two entries of the saved results have the same id.
C28_NoDuplicateIds ==
  \A i, j \in DOMAIN app.savedResults :
    i # j => app.savedResults[i].id # app.savedResults[j].id

\* C30: every selected id is the id of a saved result, and the selection has
\* as many ids as there are saved results exactly when every saved result is
\* selected.
C30_SelectedAreSaved ==
  /\ app.selectedResults \subseteq IdsOf(app.savedResults)
  /\ (Cardinality(app.selectedResults) = Len(app.savedResults))
       <=> (IdsOf(app.savedResults) \subseteq app.selectedResults)

\* the preference load and every toggle of a signed-in user have completed
ThemeSettled ==
  /\ themeProvider.user # NoUser
  /\ themeProvider.loads = {}
  /\ themeProvider.upserts = {}

====
